---- MODULE Spec2Model ----
(***************************************************************************)
(* A model of enthus-golang/printix.                                       *)
(*                                                                         *)
(* Spec      the webhook receiver (src/webhook.go): WebhookValidator with  *)
(*           its two secrets and its timestamp window, ValidateRequest,    *)
(*           verifySignature and ParseWebhookPayload, acting on one        *)
(*           in-flight http.Request.                                       *)
(* SpecSign  verifySignature applied to signatures a sender computed.      *)
(* SpecClient  the token manager and the request layer of the Client       *)
(*           (authenticate, doRequest, parseResponse), its calls made one  *)
(*           after the other while time passes.                            *)
(* SpecPrint the operations on jobs, users and groups, and the print       *)
(*           workflow (Submit, UploadDocument, CompleteUpload, PrintData,  *)
(*           PrintFile), against every answer of the token endpoint, the   *)
(*           API and the storage.                                          *)
(* SpecRace  two goroutines inside doRequest on one Client, one step for   *)
(*           each access of the token and its expiry.                      *)
(* SpecEvent ParseJobStatusChange applied to WebhookEvents.                *)
(* SpecPages GetAllPrinters, one turn of its loop at a step.               *)
(*                                                                         *)
(* Each specification moves its own variables and leaves the others at     *)
(* their initial values.                                                   *)
(*                                                                         *)
(* Representation of Go values:                                            *)
(*  - a timestamp header value and a request body are sequences of         *)
(*    one-character strings, so that strconv.ParseInt and fmt.Sprintf act  *)
(*    on the text itself;                                                  *)
(*  - a secret is an opaque TLA+ string, "" being Go's empty string;       *)
(*  - HMAC-SHA512 is a perfect keyed hash (Dolev-Yao): the digest of       *)
(*    (key, message) is the pair itself, so two digests are equal exactly  *)
(*    when key block and message are equal.  The key block is the key     *)
(*    padded with zero bytes, so a key and the same key followed by zero   *)
(*    bytes have one digest;                                               *)
(*  - a signature header value is a text described by its form: the empty  *)
(*    text, the lower-case hex of a digest (128 characters), the same in   *)
(*    upper case, a proper prefix of it, or a text that is no hex at all;  *)
(*  - time is counted in ticks, TicksPerSecond to the second, standing for *)
(*    Go's nanoseconds: the clock can sit between two whole seconds.       *)
(***************************************************************************)
EXTENDS Integers, Sequences, FiniteSets, TLC

VARIABLES
    validator,  \* the WebhookValidator: sharedSecret, oldSharedSecret, timestampWindow
    now,        \* time.Now(), in ticks since the Unix epoch
    req,        \* the http.Request in flight: its two headers and its Body reader
    calls,      \* the calls made on req under the present validator and clock, oldest first
    sgn,        \* SpecSign: a payload, the signature a sender computed, the verdict on it
    client,     \* the Client: its configuration, its token and expiry, its rate-limit state
    last,       \* the last call made on client: its inputs and its outcome
    routines,   \* SpecRace: the goroutines inside doRequest on client, and the tokens issued
    parsed,     \* SpecEvent: a WebhookEvent and what ParseJobStatusChange made of it
    pager       \* SpecPages: a call of GetAllPrinters, page by page

webhookVars == <<validator, now, req, calls>>
signVars == <<sgn>>
clientVars == <<client, last>>
raceVars == <<routines>>
eventVars == <<parsed>>
pageVars == <<pager>>
vars == <<webhookVars, signVars, clientVars, raceVars, eventVars, pageVars>>
\* what the actions of Spec leave alone
exceptWebhook == <<signVars, clientVars, raceVars, eventVars, pageVars>>

----------------------------------------------------------------------------
(* Bounds of the model *)

\* ticks to the second (Go: 1e9 nanoseconds)
TicksPerSecond == 2
\* the second the modelled clock starts at
StartSecond == 1000
\* how many ticks the clock advances at most
MaxElapsed == 2
\* how many calls are recorded for one request under one configuration
MaxCalls == 2

----------------------------------------------------------------------------
(* time.Duration and time.Time *)

Second == TicksPerSecond
Minute == 60 * Second

\* A Duration is [far, ticks]: far durations are those beyond the model's
\* exact range (in Go: exact up to about 292 years, then saturated to
\* +-(2^63-1) ns); they exceed every window either way.
Exact(n) == [far |-> FALSE, ticks |-> n]
Far == [far |-> TRUE, ticks |-> 0]

\* Duration.Abs
Abs(d) == IF d.far THEN d ELSE Exact(IF d.ticks < 0 THEN -d.ticks ELSE d.ticks)

\* d > w for a Duration d and a window w in ticks
Exceeds(d, w) == d.far \/ d.ticks > w

\* time.Now().Unix(): whole seconds, rounded down
NowUnix(t) == t \div Second

----------------------------------------------------------------------------
(* Texts *)

EmptyStr == <<>>

Digits == {"0", "1", "2", "3", "4", "5", "6", "7", "8", "9"}

DigitVal(c) ==
    CASE c = "0" -> 0 [] c = "1" -> 1 [] c = "2" -> 2 [] c = "3" -> 3
      [] c = "4" -> 4 [] c = "5" -> 5 [] c = "6" -> 6 [] c = "7" -> 7
      [] c = "8" -> 8 [] c = "9" -> 9

DigitChar(n) ==
    CASE n = 0 -> "0" [] n = 1 -> "1" [] n = 2 -> "2" [] n = 3 -> "3"
      [] n = 4 -> "4" [] n = 5 -> "5" [] n = 6 -> "6" [] n = 7 -> "7"
      [] n = 8 -> "8" [] n = 9 -> "9"

RECURSIVE FormatUint(_)
FormatUint(n) == IF n < 10 THEN <<DigitChar(n)>>
                 ELSE Append(FormatUint(n \div 10), DigitChar(n % 10))

\* strconv.FormatInt(n, 10)
FormatInt(n) == IF n < 0 THEN <<"-">> \o FormatUint(-n) ELSE FormatUint(n)

RECURSIVE StripZeros(_)
StripZeros(d) == IF Len(d) > 1 /\ d[1] = "0" THEN StripZeros(Tail(d)) ELSE d

RECURSIVE DigitsValue(_)
DigitsValue(d) == IF d = <<>> THEN 0
                  ELSE 10 * DigitsValue(SubSeq(d, 1, Len(d) - 1)) + DigitVal(d[Len(d)])

\* a <= b for two digit strings without leading zeros
RECURSIVE LexLeq(_, _)
LexLeq(a, b) ==
    IF a = <<>> THEN TRUE
    ELSE IF DigitVal(a[1]) # DigitVal(b[1]) THEN DigitVal(a[1]) < DigitVal(b[1])
    ELSE LexLeq(Tail(a), Tail(b))

DigitsLeq(a, b) == Len(a) < Len(b) \/ (Len(a) = Len(b) /\ LexLeq(a, b))

\* 2^63 - 1 and 2^63
MaxInt64Digits ==
    <<"9","2","2","3","3","7","2","0","3","6","8","5","4","7","7","5","8","0","7">>
MinInt64Magnitude ==
    <<"9","2","2","3","3","7","2","0","3","6","8","5","4","7","7","5","8","0","8">>

\* 2^64 - 1
MaxUint64Digits ==
    <<"1","8","4","4","6","7","4","4","0","7","3","7","0","9","5","5","1","6","1","5">>

\* the longest prefix of s made of decimal digits
RECURSIVE DigitPrefix(_)
DigitPrefix(s) == IF s # <<>> /\ s[1] \in Digits THEN <<s[1]>> \o DigitPrefix(Tail(s))
                  ELSE <<>>

\* a faulty ParseInt: the leading digits are the value, whatever follows
\* them, and a text without leading digits is 0
ParseIntLenient(s) ==
    LET prefix == DigitPrefix(s)
    IN  [err |-> "nil", neg |-> FALSE,
         digits |-> IF prefix = <<>> THEN <<"0">>
                    ELSE IF Len(StripZeros(prefix)) > 8 THEN MaxInt64Digits
                    ELSE StripZeros(prefix)]

\* strconv.ParseInt(s, 10, 64): an optional sign, then one or more decimal
\* digits and nothing else; the value must fit an int64.  The result is the
\* error ("nil", "syntax" or "range") and, when nil, the value as sign and
\* magnitude (the magnitude as digits without leading zeros).
ParseInt(s) ==
    LET signed == s # <<>> /\ s[1] \in {"+", "-"}
        neg    == s # <<>> /\ s[1] = "-"
        rest   == IF signed THEN Tail(s) ELSE s
        prefix == DigitPrefix(rest)
        mag    == StripZeros(prefix)
        bad(e) == [err |-> e, neg |-> FALSE, digits |-> <<"0">>]
    IN  IF s = <<>> \/ rest = <<>> THEN bad("syntax")
        ELSE IF prefix # <<>> /\ ~DigitsLeq(mag, MaxUint64Digits) THEN bad("range")
        ELSE IF Len(prefix) < Len(rest) THEN bad("syntax")
        ELSE IF ~neg /\ ~DigitsLeq(mag, MaxInt64Digits) THEN bad("range")
        ELSE IF neg /\ ~DigitsLeq(mag, MinInt64Magnitude) THEN bad("range")
        ELSE [err |-> "nil", neg |-> neg, digits |-> mag]

\* time.Unix(sec, 0) as an instant [far, ticks].  Instants of up to eight
\* digits of seconds are kept exactly; the others lie more than three years
\* from the modelled clock and are far.
Unix(p) ==
    IF Len(p.digits) <= 8
    THEN [far |-> FALSE,
          ticks |-> (IF p.neg THEN -DigitsValue(p.digits) ELSE DigitsValue(p.digits)) * Second]
    ELSE [far |-> TRUE, ticks |-> 0]

\* time.Since(u) at clock t: t - u, saturated when out of range
Since(t, u) == IF u.far THEN Far ELSE Exact(t - u.ticks)

----------------------------------------------------------------------------
(* crypto/hmac, encoding/hex *)

\* two secrets that end in a zero byte: "\0" and "A\0"
Zero == "\\0"
AZero == "A\\0"

\* a faulty key block: the key as it is, unpadded
KeyBlockUnpadded(key) == key

\* hmac.New(sha512.New, key): a key shorter than the 128-byte block of SHA-512
\* is padded with zero bytes to the block.  The block is named by the key
\* without the zero bytes at its end.
KeyBlock(key) == IF key = AZero THEN "A" ELSE IF key = Zero THEN "" ELSE key

\* hmac.New(sha512.New, key), Write(msg), Sum(nil): the digest
Hmac(key, msg) == [key |-> KeyBlock(key), msg |-> msg]

\* Texts a signature header can hold
EmptyText == [form |-> "empty", key |-> "", msg |-> <<>>]
PlainText == [form |-> "text", key |-> "", msg |-> <<>>]
\* hex.EncodeToString(d): lower-case hex
EncodeToString(d) == [form |-> "hex", key |-> d.key, msg |-> d.msg]
\* the same digits in upper case
UpperHex(d) == [form |-> "HEX", key |-> d.key, msg |-> d.msg]
\* a proper prefix of the lower-case hex
TruncatedHex(d) == [form |-> "hexcut", key |-> d.key, msg |-> d.msg]

\* a faulty hmac.Equal: hex digits compared without regard to case
HmacEqualFold(a, b) ==
    \/ a = b
    \/ /\ {a.form, b.form} = {"hex", "HEX"}
       /\ a.key = b.key
       /\ a.msg = b.msg

\* hmac.Equal(a, b): equality of the two byte strings, lengths included
HmacEqual(a, b) == a = b

\* a faulty verifySignature: only as many characters as were presented are
\* compared with the expected signature
verifySignaturePrefix(payload, signature, secret) ==
    LET expectedSignature == EncodeToString(Hmac(secret, payload))
    IN  \/ signature = expectedSignature
        \/ signature = TruncatedHex(Hmac(secret, payload))

\* src/webhook.go:106 verifySignature
verifySignature(payload, signature, secret) ==
    LET expectedSignature == EncodeToString(Hmac(secret, payload))
    IN  HmacEqual(signature, expectedSignature)

----------------------------------------------------------------------------
(* net/http, io *)

\* Header.Get: the value of the header, or the empty string when absent
HeaderGet(h, empty) == IF h.present THEN h.value ELSE empty

\* A Body reader is [data, err]: the bytes not read yet, and whether the
\* reader ends in an error instead of EOF.
\* io.ReadAll(b): the bytes, the error, and the reader left behind
ReadAll(b) == [bytes |-> b.data, err |-> b.err, rest |-> [data |-> <<>>, err |-> b.err]]

\* a faulty replacement body: a reader left at its end
NewReaderAtEnd(body) == [data |-> <<>>, err |-> FALSE]

\* io.NopCloser(bytes.NewReader(body))
NewReader(body) == [data |-> body, err |-> FALSE]

\* a faulty payload: the timestamp is written anew from the integer it parses to
SprintfReformatted(timestampStr, body) ==
    LET p == ParseInt(timestampStr)
    IN  (IF p.err = "nil" /\ Len(p.digits) <= 8
         THEN FormatInt(Unix(p).ticks \div Second) ELSE timestampStr)
        \o <<".">> \o body

\* fmt.Sprintf("%s.%s", timestampStr, string(body))
Sprintf(timestampStr, body) == timestampStr \o <<".">> \o body

----------------------------------------------------------------------------
(* src/webhook.go: WebhookValidator *)

\* src/webhook.go:46 NewWebhookValidator
NewWebhookValidator(sharedSecret) ==
    [sharedSecret    |-> sharedSecret,
     oldSharedSecret |-> "",
     timestampWindow |-> 15 * Minute]

\* a faulty SetOldSecret: the given secret becomes the active one and the
\* active one the previous
SetOldSecretSwap(v, oldSecret) ==
    [v EXCEPT !.sharedSecret = oldSecret, !.oldSharedSecret = v.sharedSecret]

\* src/webhook.go:54 SetOldSecret
SetOldSecret(v, oldSecret) == [v EXCEPT !.oldSharedSecret = oldSecret]

\* The checks of ValidateRequest, in the order of the source
CheckOrder ==
    <<"timestamp presence", "timestamp parse", "window", "body read",
      "signature presence", "active secret", "previous secret">>

Checks(n) == SubSeq(CheckOrder, 1, n)

\* a faulty replay check: only timestamps of the past are refused
OutsideWindowPastOnly(v, t, requestTime) ==
    Exceeds(Since(t, requestTime), v.timestampWindow)

\* src/webhook.go:72: the replay check at clock t, true when the request is
\* to be refused
OutsideWindow(v, t, requestTime) ==
    Exceeds(Abs(Since(t, requestTime)), v.timestampWindow)

\* a faulty CheckTimestamp: an empty header is left to ParseInt
CheckTimestampNoPresence(v, timestampStr, t) ==
    LET timestamp   == ParseInt(timestampStr)
        requestTime == Unix(timestamp)
    IN  IF timestamp.err # "nil"
        THEN [err |-> "invalid timestamp", cause |-> timestamp.err, n |-> 2]
        ELSE IF OutsideWindow(v, t, requestTime)
        THEN [err |-> "timestamp outside acceptable window", cause |-> "", n |-> 3]
        ELSE [err |-> "nil", cause |-> "", n |-> 3]

\* src/webhook.go:62-74: the checks on the timestamp header at clock t.
\* The result is the error ("nil" when all three pass), the error it wraps
\* and the number of checks made.
CheckTimestamp(v, timestampStr, t) ==
    LET timestamp   == ParseInt(timestampStr)
        requestTime == Unix(timestamp)
    IN  IF timestampStr = EmptyStr
        THEN [err |-> "missing timestamp header", cause |-> "", n |-> 1]
        ELSE IF timestamp.err # "nil"
        THEN [err |-> "invalid timestamp", cause |-> timestamp.err, n |-> 2]
        ELSE IF OutsideWindow(v, t, requestTime)
        THEN [err |-> "timestamp outside acceptable window", cause |-> "", n |-> 3]
        ELSE [err |-> "nil", cause |-> "", n |-> 3]

\* a faulty CheckSecrets: the previous secret is never tried
CheckSecretsActiveOnly(v, payload, signature) ==
    IF verifySignature(payload, signature, v.sharedSecret)
    THEN [err |-> "nil", n |-> 6, tried |-> <<v.sharedSecret>>]
    ELSE [err |-> "invalid signature", n |-> 6, tried |-> <<v.sharedSecret>>]

\* a faulty CheckSecrets: the previous secret is tried even when it is empty
CheckSecretsEmptyPrevious(v, payload, signature) ==
    IF verifySignature(payload, signature, v.sharedSecret)
    THEN [err |-> "nil", n |-> 6, tried |-> <<v.sharedSecret>>]
    ELSE IF verifySignature(payload, signature, v.oldSharedSecret)
    THEN [err |-> "nil", n |-> 7, tried |-> <<v.sharedSecret, v.oldSharedSecret>>]
    ELSE [err |-> "invalid signature", n |-> 7,
          tried |-> <<v.sharedSecret, v.oldSharedSecret>>]

\* src/webhook.go:92-102: the signature against the active secret, then
\* against the previous one when it is set.  The result is the error, the
\* number of checks made by then and the secrets handed to verifySignature.
CheckSecrets(v, payload, signature) ==
    IF verifySignature(payload, signature, v.sharedSecret)
    THEN [err |-> "nil", n |-> 6, tried |-> <<v.sharedSecret>>]
    ELSE IF v.oldSharedSecret = ""
    THEN [err |-> "invalid signature", n |-> 6, tried |-> <<v.sharedSecret>>]
    ELSE IF verifySignature(payload, signature, v.oldSharedSecret)
    THEN [err |-> "nil", n |-> 7, tried |-> <<v.sharedSecret, v.oldSharedSecret>>]
    ELSE [err |-> "invalid signature", n |-> 7,
          tried |-> <<v.sharedSecret, v.oldSharedSecret>>]

\* The outcome of one call of ValidateRequest:
\*   v       the validator after the call
\*   body    r.Body after the call
\*   err     the error returned ("nil" for none), cause the error it wraps
\*   checks  the checks made, in the order they were made
\*   tried   the secrets handed to verifySignature, in that order
\*   bytes   what io.ReadAll returned, payload the signed payload built
Outcome(v, body, err, cause, checks, tried, bytes, payload) ==
    [v |-> v, body |-> body, err |-> err, cause |-> cause, checks |-> checks,
     tried |-> tried, bytes |-> bytes, payload |-> payload]

\* a faulty ValidateRequest: the signature header is looked at first
ValidateRequestSignatureFirst(v, r, t) ==
    LET timestampStr == HeaderGet(r.header.timestamp, EmptyStr)
        ts           == CheckTimestamp(v, timestampStr, t)
        rd           == ReadAll(r.body)
        body         == rd.bytes
        signature    == HeaderGet(r.header.signature, EmptyText)
        payload      == Sprintf(timestampStr, body)
        sec          == CheckSecrets(v, payload, signature)
    IN  IF signature = EmptyText
        THEN Outcome(v, r.body, "missing signature header", "",
                     <<"signature presence">>, <<>>, <<>>, <<>>)
        ELSE IF ts.err # "nil"
        THEN Outcome(v, r.body, ts.err, ts.cause,
                     <<"signature presence">> \o Checks(ts.n), <<>>, <<>>, <<>>)
        ELSE IF rd.err
        THEN Outcome(v, rd.rest, "reading request body", "read",
                     <<"signature presence">> \o Checks(4), <<>>, body, <<>>)
        ELSE Outcome(v, NewReader(body), sec.err, "",
                     <<"signature presence">> \o Checks(4) \o SubSeq(CheckOrder, 6, sec.n),
                     sec.tried, body, payload)

\* a faulty ValidateRequest: an empty signature is handed to the secrets
ValidateRequestNoSignatureCheck(v, r, t) ==
    LET timestampStr == HeaderGet(r.header.timestamp, EmptyStr)
        ts           == CheckTimestamp(v, timestampStr, t)
        rd           == ReadAll(r.body)
        body         == rd.bytes
        signature    == HeaderGet(r.header.signature, EmptyText)
        payload      == Sprintf(timestampStr, body)
        sec          == CheckSecrets(v, payload, signature)
    IN  IF ts.err # "nil"
        THEN Outcome(v, r.body, ts.err, ts.cause, Checks(ts.n), <<>>, <<>>, <<>>)
        ELSE IF rd.err
        THEN Outcome(v, rd.rest, "reading request body", "read", Checks(4), <<>>, body, <<>>)
        ELSE Outcome(v, NewReader(body), sec.err, "", Checks(sec.n), sec.tried, body, payload)

\* a faulty ValidateRequest: the body it has read is not put back
ValidateRequestOnce(v, r, t) ==
    LET timestampStr == HeaderGet(r.header.timestamp, EmptyStr)
        ts           == CheckTimestamp(v, timestampStr, t)
        rd           == ReadAll(r.body)
        body         == rd.bytes
        signature    == HeaderGet(r.header.signature, EmptyText)
        payload      == Sprintf(timestampStr, body)
        sec          == CheckSecrets(v, payload, signature)
    IN  IF ts.err # "nil"
        THEN Outcome(v, r.body, ts.err, ts.cause, Checks(ts.n), <<>>, <<>>, <<>>)
        ELSE IF rd.err
        THEN Outcome(v, rd.rest, "reading request body", "read", Checks(4), <<>>, body, <<>>)
        ELSE IF signature = EmptyText
        THEN Outcome(v, rd.rest, "missing signature header", "",
                     Checks(5), <<>>, body, <<>>)
        ELSE Outcome(v, rd.rest, sec.err, "", Checks(sec.n), sec.tried, body, payload)

\* src/webhook.go:59 ValidateRequest, called at clock t
ValidateRequest(v, r, t) ==
    LET timestampStr == HeaderGet(r.header.timestamp, EmptyStr)
        ts           == CheckTimestamp(v, timestampStr, t)
        rd           == ReadAll(r.body)
        body         == rd.bytes
        signature    == HeaderGet(r.header.signature, EmptyText)
        payload      == Sprintf(timestampStr, body)
        sec          == CheckSecrets(v, payload, signature)
    IN  IF ts.err # "nil"
        THEN Outcome(v, r.body, ts.err, ts.cause, Checks(ts.n), <<>>, <<>>, <<>>)
        ELSE IF rd.err
        THEN Outcome(v, rd.rest, "reading request body", "read", Checks(4), <<>>, body, <<>>)
        ELSE IF signature = EmptyText
        THEN Outcome(v, NewReader(body), "missing signature header", "",
                     Checks(5), <<>>, body, <<>>)
        ELSE Outcome(v, NewReader(body), sec.err, "", Checks(sec.n), sec.tried, body, payload)

\* The bodies of the model that encoding/json decodes into a WebhookPayload
JSONObjects == {<<"{", "}">>}

\* a faulty ParseWebhookPayload: the body it has read is put back
ParseWebhookPayloadRestoring(r) ==
    LET rd == ReadAll(r.body)
    IN  [body  |-> IF rd.err THEN rd.rest ELSE NewReader(rd.bytes),
         bytes |-> rd.bytes,
         err   |-> IF ~rd.err /\ rd.bytes \in JSONObjects
                   THEN "nil" ELSE "decoding webhook payload"]

\* src/webhook.go:115 ParseWebhookPayload: the decoder reads the body to its
\* end (the bodies of the model are shorter than its first read)
ParseWebhookPayload(r) ==
    LET rd == ReadAll(r.body)
    IN  [body  |-> rd.rest,
         bytes |-> rd.bytes,
         err   |-> IF ~rd.err /\ rd.bytes \in JSONObjects
                   THEN "nil" ELSE "decoding webhook payload"]

----------------------------------------------------------------------------
(* The requests and secrets of the model *)

\* the secrets a validator is constructed with
ActiveSecrets == {"A", "B"}
\* the values SetOldSecret is called with
OldSecrets == {"", "A", "B"}
\* the keys a sender signs with
SignerKeys == {"", "A", "B", "C"}

Absent(empty) == [present |-> FALSE, value |-> empty]
Present(x) == [present |-> TRUE, value |-> x]

\* seconds between the clock and the timestamp a sender writes
Offsets == {-901, -900, -899, 0, 899, 900, 901}

\* X-Printix-Timestamp as senders write it at clock t
TimestampHeaders(t) ==
    {Absent(EmptyStr), Present(EmptyStr)}
    \cup {Present(FormatInt(NowUnix(t) + d)) : d \in Offsets}
    \cup {Present(<<"+">> \o FormatInt(NowUnix(t))),
          Present(<<"0">> \o FormatInt(NowUnix(t))),
          Present(<<"a", "b", "c">>),
          Present(<<"-">>),
          Present(<<"1", "e", "3">>),
          Present(MaxInt64Digits),
          Present(MaxUint64Digits)}

\* request bodies: the bytes, and whether reading them ends in an error
Bodies ==
    {[data |-> <<>>, err |-> FALSE], [data |-> <<"{", "}">>, err |-> FALSE],
     [data |-> <<"x">>, err |-> FALSE], [data |-> <<"{">>, err |-> TRUE]}

\* X-Printix-Signature as senders write it for a timestamp header and a body
SignatureHeaders(ts, body) ==
    LET payload   == Sprintf(HeaderGet(ts, EmptyStr), body.data)
        p         == ParseInt(HeaderGet(ts, EmptyStr))
        canonical == IF p.err = "nil" /\ Len(p.digits) <= 8
                     THEN Sprintf(FormatInt(Unix(p).ticks \div Second), body.data)
                     ELSE payload
    IN  {Absent(EmptyText), Present(EmptyText), Present(PlainText)}
        \cup {Present(EncodeToString(Hmac(k, payload))) : k \in SignerKeys}
        \cup {Present(EncodeToString(Hmac("A", canonical))),
              Present(UpperHex(Hmac("A", payload))),
              Present(TruncatedHex(Hmac("A", payload)))}

\* the request slot between two requests: no header, an empty body
NoRequest ==
    [header |-> [timestamp |-> Absent(EmptyStr), signature |-> Absent(EmptyText)],
     body   |-> [data |-> <<>>, err |-> FALSE]]

----------------------------------------------------------------------------
(* The client of src/unnamed/part_003: values *)

\* tokenRenewalBuffer, in seconds
tokenRenewalBuffer == 600
\* net/http status codes the client names
StatusOK == 200
StatusCreated == 201

\* An error is the chain of its messages, outermost first (fmt.Errorf with
\* %w puts a message before the chain it wraps), with the values the
\* innermost message was formatted with: a status code, a text, an error id.
NoError == [chain |-> <<>>, status |-> 0, text |-> "", id |-> ""]
Errorf(msg, status, text, id) == [chain |-> <<msg>>, status |-> status, text |-> text, id |-> id]
Wrap(msg, err) == [err EXCEPT !.chain = <<msg>> \o @]

\* A URL is a base (scheme and host) and a path; an endpoint relative to the
\* API has the empty base.
NoQuery == [PDL |-> "", test |-> FALSE]
URL(base, path) == [base |-> base, path |-> path, query |-> NoQuery]
defaultBaseURL == "https://api.printix.net"
defaultAuthURL == URL("https://auth.printix.net", "/oauth/token")
testAuthURL == URL("https://auth.testenv.printix.net", "/oauth/token")
\* a base that url.Parse refuses (missing protocol scheme)
MalformedBase == "://"
\* http.NewRequestWithContext fails on a URL that does not parse
Parses(url) == url.base # MalformedBase
\* strings.HasPrefix(endpoint, "http://") || strings.HasPrefix(endpoint, "https://")
IsAbsolute(endpoint) == endpoint.base \notin {"", MalformedBase}

\* time.Time of the client: the zero Time (year 1) or an instant in ticks
ZeroTime == [zero |-> TRUE, ticks |-> 0]
At(ticks) == [zero |-> FALSE, ticks |-> ticks]
\* u.Add(d), d in ticks
Add(u, d) == IF u.zero THEN u ELSE At(u.ticks + d)
\* a faulty Before: not after
NotAfter(t, u) == ~u.zero /\ t <= u.ticks
\* time.Now().Before(u) at clock t
Before(t, u) == ~u.zero /\ t < u.ticks

\* An HTTP request as the server sees it
Request(to, method, url, bearer) ==
    [to |-> to, method |-> method, url |-> url, bearer |-> bearer, version |-> ""]
\* the Authorization header of a request that has none
NoBearer == "(none)"

----------------------------------------------------------------------------
(* src/unnamed/part_003: New and its options *)

WithBaseURL(baseURL) == [opt |-> "WithBaseURL", base |-> baseURL, url |-> URL("", "")]
WithTestMode == [opt |-> "WithTestMode", base |-> "", url |-> URL("", "")]
WithTenantID(tenantID) == [opt |-> "WithTenantID", base |-> tenantID, url |-> URL("", "")]
WithAuthURL(authURL) == [opt |-> "WithAuthURL", base |-> "", url |-> authURL]

\* opt(c)
Apply(opt, c) ==
    CASE opt.opt = "WithBaseURL"  -> [c EXCEPT !.baseURL = opt.base]
      [] opt.opt = "WithTestMode" -> [c EXCEPT !.testMode = TRUE, !.authURL = testAuthURL]
      [] opt.opt = "WithTenantID" -> [c EXCEPT !.tenantID = opt.base]
      [] opt.opt = "WithAuthURL"  -> [c EXCEPT !.authURL = opt.url]

RECURSIVE ApplyAll(_, _)
ApplyAll(opts, c) == IF opts = <<>> THEN c ELSE ApplyAll(Tail(opts), Apply(Head(opts), c))

\* a faulty New: the options are applied from the last to the first, so that
\* the earlier option overrides the later one
NewFirstWins(clientID, clientSecret, opts) ==
    ApplyAll([i \in DOMAIN opts |-> opts[Len(opts) + 1 - i]],
        [baseURL |-> defaultBaseURL, authURL |-> defaultAuthURL,
         clientID |-> clientID, clientSecret |-> clientSecret,
         tenantID |-> "", accessToken |-> "", tokenExpiry |-> ZeroTime,
         testMode |-> FALSE, rateLimitRemain |-> 0,
         rateLimitReset |-> [far |-> TRUE, ticks |-> 0]])

\* src/unnamed/part_003:83 New(clientID, clientSecret, opts...)
New(clientID, clientSecret, opts) ==
    ApplyAll(opts,
        [baseURL |-> defaultBaseURL, authURL |-> defaultAuthURL,
         clientID |-> clientID, clientSecret |-> clientSecret,
         tenantID |-> "", accessToken |-> "", tokenExpiry |-> ZeroTime,
         testMode |-> FALSE, rateLimitRemain |-> 0,
         rateLimitReset |-> [far |-> TRUE, ticks |-> 0]])

----------------------------------------------------------------------------
(* src/unnamed/part_003: authenticate *)

\* Bodies of the token endpoint's responses: whether the text decodes into
\* authResp, whether reading it ends in an error, the text, and the fields
\* decoded.
TokenBody(token, expires) ==
    [json |-> TRUE, err |-> FALSE, text |-> "{\"access_token\":...}",
     access_token |-> token, expires_in |-> expires]
TextBody(text) ==
    [json |-> FALSE, err |-> FALSE, text |-> text, access_token |-> "", expires_in |-> 0]
CutBody ==
    [json |-> FALSE, err |-> TRUE, text |-> "", access_token |-> "", expires_in |-> 0]

\* What httpClient.Do returns: an error (cancellation, transport), or a
\* response with its status and body
DoError == [err |-> TRUE, status |-> 0, body |-> TextBody("")]
Response(status, body) == [err |-> FALSE, status |-> status, body |-> body]

\* The outcome of authenticate: the client after the call, the error
\* returned, and the requests sent to the token endpoint
AuthOutcome(c, err, sent) == [c |-> c, err |-> err, sent |-> sent]

\* a faulty check of the cached token: it is good until its expiry
ReusesUntilExpiry(c, t) == c.accessToken # "" /\ Before(t, c.tokenExpiry)

\* src/unnamed/part_003:102: the cached token is still good at clock t
Reuses(c, t) ==
    c.accessToken # "" /\ Before(t, Add(c.tokenExpiry, -tokenRenewalBuffer * Second))

\* src/unnamed/part_003:125: the status of the token response is a failure
AuthStatusFails(status) == status # StatusOK

\* a faulty authenticate: the cached token is dropped before the token
\* endpoint is asked
authenticateDropping(c, t, reply) ==
    LET tokenReq == Request("token", "POST", c.authURL, NoBearer)
        dropped  == [c EXCEPT !.accessToken = ""]
    IN  IF Reuses(c, t) THEN AuthOutcome(c, NoError, <<>>)
        ELSE IF reply.err \/ AuthStatusFails(reply.status) \/ ~reply.body.json
        THEN AuthOutcome(dropped, Errorf("authentication failed with status", reply.status,
                                         "", ""), <<tokenReq>>)
        ELSE AuthOutcome([c EXCEPT !.accessToken = reply.body.access_token,
                                   !.tokenExpiry = At(t + reply.body.expires_in * Second)],
                         NoError, <<tokenReq>>)

\* src/unnamed/part_003:100 authenticate, called at clock t; reply is what
\* the token endpoint answers when it is asked
authenticate(c, t, reply) ==
    LET tokenReq == Request("token", "POST", c.authURL, NoBearer)
    IN  IF Reuses(c, t) THEN AuthOutcome(c, NoError, <<>>)
        ELSE IF ~Parses(c.authURL)
        THEN AuthOutcome(c, Errorf("creating auth request", 0, "", ""), <<>>)
        ELSE IF reply.err
        THEN AuthOutcome(c, Errorf("executing auth request", 0, "", ""), <<tokenReq>>)
        ELSE IF AuthStatusFails(reply.status)
        THEN AuthOutcome(c, Errorf("authentication failed with status", reply.status,
                                   IF reply.body.err THEN "" ELSE reply.body.text, ""),
                         <<tokenReq>>)
        ELSE IF ~reply.body.json
        THEN AuthOutcome(c, Errorf("decoding auth response", 0, "", ""), <<tokenReq>>)
        ELSE AuthOutcome([c EXCEPT !.accessToken = reply.body.access_token,
                                   !.tokenExpiry = At(t + reply.body.expires_in * Second)],
                         NoError, <<tokenReq>>)

----------------------------------------------------------------------------
(* src/unnamed/part_003: doRequest, parseResponse *)

\* Bodies of the API's responses: whether the text decodes into the response
\* struct, whether reading it ends in an error, the text, and the fields
\* decoded (Response and the links of a SubmitResponse).
ApiBody(success, description, id, uploadLinks, uploadCompleted) ==
    [json |-> TRUE, err |-> FALSE, text |-> "{\"success\":...}", success |-> success,
     errorDescription |-> description, errorId |-> id,
     uploadLinks |-> uploadLinks, uploadCompleted |-> uploadCompleted]
ApiText(text) ==
    [json |-> FALSE, err |-> FALSE, text |-> text, success |-> FALSE,
     errorDescription |-> "", errorId |-> "",
     uploadLinks |-> <<>>, uploadCompleted |-> URL("", "")]
ApiCut == [ApiText("") EXCEPT !.err = TRUE]

\* What httpClient.Do returns for an API request: an error, or a response
\* with its status, its body and its two rate-limit headers
ApiDoError ==
    [err |-> TRUE, status |-> 0, body |-> ApiText(""),
     remaining |-> Absent(EmptyStr), reset |-> Absent(EmptyStr)]
ApiResponse(status, body, remaining, reset) ==
    [err |-> FALSE, status |-> status, body |-> body, remaining |-> remaining, reset |-> reset]

\* the int a parsed decimal text of at most eight digits stands for
IntOf(p) == IF p.neg THEN -DigitsValue(p.digits) ELSE DigitsValue(p.digits)

\* a faulty reading of the headers: a header that is missing or does not
\* parse sets the stored value back to zero
RateLimitOverwriting(c, resp) ==
    LET remaining == HeaderGet(resp.remaining, EmptyStr)
        reset     == HeaderGet(resp.reset, EmptyStr)
    IN  [c EXCEPT !.rateLimitRemain = IF ParseInt(remaining).err = "nil"
                                      THEN IntOf(ParseInt(remaining)) ELSE 0,
                  !.rateLimitReset = IF ParseInt(reset).err = "nil"
                                     THEN Unix(ParseInt(reset)) ELSE [far |-> TRUE, ticks |-> 0]]

\* src/unnamed/part_003:187-196: the rate-limit headers of a response
RateLimit(c, resp) ==
    LET remaining == HeaderGet(resp.remaining, EmptyStr)
        reset     == HeaderGet(resp.reset, EmptyStr)
        c1 == IF remaining # EmptyStr /\ ParseInt(remaining).err = "nil"
              THEN [c EXCEPT !.rateLimitRemain = IntOf(ParseInt(remaining))] ELSE c
    IN  IF reset # EmptyStr /\ ParseInt(reset).err = "nil"
        THEN [c1 EXCEPT !.rateLimitReset = Unix(ParseInt(reset))] ELSE c1

\* the value of an expression worked out once: the element of a singleton
The(S) == CHOOSE x \in S : TRUE

\* src/unnamed/part_003:230 GetRateLimitInfo
GetRateLimitInfo(c) == [remaining |-> c.rateLimitRemain, reset |-> c.rateLimitReset]

\* The outcome of doRequest: the client after the call, the response and the
\* error returned, and the requests sent, in the order they were sent
RequestOutcome(c, resp, err, sent) == [c |-> c, resp |-> resp, err |-> err, sent |-> sent]

\* a faulty doRequest: a failed authentication is tried once more
doRequestRetry(c, t, method, endpoint, authReply, apiReply) ==
    LET auth == authenticate(c, t, authReply)
    IN  RequestOutcome(auth.c, ApiDoError,
            IF auth.err = NoError THEN NoError ELSE Wrap("authentication failed", auth.err),
            auth.sent \o auth.sent)

\* src/unnamed/part_003:151 doRequest, called at clock t (the bodies the
\* callers pass always marshal); authReply and apiReply are what the token
\* endpoint and the API answer when they are asked
doRequest(c, t, method, endpoint, authReply, apiReply) ==
    The({LET fullURL == IF IsAbsolute(endpoint) THEN endpoint
                        ELSE [endpoint EXCEPT !.base = c.baseURL]
             apiReq  == Request("api", method, fullURL, auth.c.accessToken)
         IN  IF auth.err # NoError
             THEN RequestOutcome(auth.c, ApiDoError, Wrap("authentication failed", auth.err),
                                 auth.sent)
             ELSE IF ~Parses(fullURL)
             THEN RequestOutcome(auth.c, ApiDoError, Errorf("creating request", 0, "", ""),
                                 auth.sent)
             ELSE IF apiReply.err
             THEN RequestOutcome(auth.c, ApiDoError, Errorf("executing request", 0, "", ""),
                                 Append(auth.sent, apiReq))
             ELSE RequestOutcome(RateLimit(auth.c, apiReply), apiReply, NoError,
                                 Append(auth.sent, apiReq))
         : auth \in {authenticate(c, t, authReply)}})

\* doRequestWithHeaders: doRequest with the given headers set on the API
\* request (here the "version" header)
doRequestWithHeaders(c, t, method, endpoint, version, authReply, apiReply) ==
    The({LET n   == Len(out.sent)
         IN  IF n > 0 /\ out.sent[n].to = "api"
             THEN [out EXCEPT !.sent[n].version = version]
             ELSE out
         : out \in {doRequest(c, t, method, endpoint, authReply, apiReply)}})

\* src/unnamed/part_003:209 parseResponse(resp, v) with v non-nil
parseResponse(resp) ==
    IF resp.status < 200 \/ resp.status >= 300
    THEN Errorf("request failed with status", resp.status,
                IF resp.body.err THEN "" ELSE resp.body.text, "")
    ELSE IF ~resp.body.json THEN Errorf("decoding response", 0, "", "")
    ELSE NoError

----------------------------------------------------------------------------
(* src/webhook.go: the events of a WebhookPayload and their classification *)

\* src/webhook.go:18 WebhookEvent; the name is a sequence of characters
NamedEvent(name, href, time) == [Name |-> name, Href |-> href, Time |-> time]

\* strings.Contains(s, substr)
Contains(s, substr) ==
    \E i \in 0..(Len(s) - Len(substr)) : SubSeq(s, i + 1, i + Len(substr)) = substr

\* a faulty IsJobStatusChangeEvent: one of the two substrings is enough
IsJobStatusChangeEventEither(e) ==
    Contains(e.Name, <<"J", "O", "B">>) \/ Contains(e.Name, <<"S", "T", "A", "T", "U", "S">>)

\* src/webhook.go:123 IsUserCreateEvent
IsUserCreateEvent(e) ==
    e.Name = <<"R", "E", "S", "O", "U", "R", "C", "E", ".", "T", "E", "N", "A", "N", "T", "_", "U", "S", "E", "R", ".", "C", "R", "E", "A", "T", "E">>

\* src/webhook.go:128 IsJobStatusChangeEvent
IsJobStatusChangeEvent(e) ==
    Contains(e.Name, <<"J", "O", "B">>) /\ Contains(e.Name, <<"S", "T", "A", "T", "U", "S">>)

----------------------------------------------------------------------------
(* src/unnamed/part_000: WebhookEvent, ParseJobStatusChange *)

\* JSON values of the members of an object, and a member
JSONString(text) == [type |-> "string", text |-> text]
JSONNumber(text) == [type |-> "number", text |-> text]
JSONNull == [type |-> "null", text |-> "null"]
Member(key, value) == [key |-> key, value |-> value]

\* The Data of a WebhookEvent (json.RawMessage): an object with its members
\* in the order of the text, or a text of another kind: "null", "array",
\* "malformed" (no JSON value) and "empty" (no bytes at all)
Object(members) == [kind |-> "object", members |-> members]
RawMessage(kind) == [kind |-> kind, members |-> <<>>]

\* src/unnamed/part_000:17 WebhookEvent (the fields ParseJobStatusChange reads)
WebhookEvent(type, data) == [Type |-> type, Data |-> data]

\* src/unnamed/part_000:25 WebhookJobStatusChange, and its zero value
WebhookJobStatusChange(jobID, printerID, status, message) ==
    [JobID |-> jobID, PrinterID |-> printerID, Status |-> status, Message |-> message]
ZeroJobStatusChange == WebhookJobStatusChange("", "", "", "")

\* The field of WebhookJobStatusChange that encoding/json decodes a key into:
\* the field with that json name, or else the field whose name equals the key
\* without regard to case; "" when there is none and the member is skipped
FieldOfKey(key) ==
    IF key \in {"jobId", "JOBID"} THEN "JobID"
    ELSE IF key \in {"printerId", "PrinterID"} THEN "PrinterID"
    ELSE IF key = "status" THEN "Status"
    ELSE IF key = "message" THEN "Message"
    ELSE ""

\* json.Unmarshal of the members of an object into v, one after the other: a
\* string is stored, null leaves the field alone, a value of another type is
\* an UnmarshalTypeError, kept while the rest is decoded
RECURSIVE DecodeMembers(_, _, _)
DecodeMembers(members, v, err) ==
    IF members = <<>> THEN [v |-> v, err |-> err]
    ELSE LET m == Head(members)
             f == FieldOfKey(m.key)
         IN  IF f = "" \/ m.value.type = "null"
             THEN DecodeMembers(Tail(members), v, err)
             ELSE IF m.value.type = "string"
             THEN DecodeMembers(Tail(members), [v EXCEPT ![f] = m.value.text], err)
             ELSE DecodeMembers(Tail(members), v,
                                IF err = "nil" THEN "UnmarshalTypeError" ELSE err)

\* json.Unmarshal(data, &v) for v a zero WebhookJobStatusChange
Unmarshal(data) ==
    IF data.kind \in {"malformed", "empty"} THEN [v |-> ZeroJobStatusChange, err |-> "SyntaxError"]
    ELSE IF data.kind = "null" THEN [v |-> ZeroJobStatusChange, err |-> "nil"]
    ELSE IF data.kind = "object" THEN DecodeMembers(data.members, ZeroJobStatusChange, "nil")
    ELSE [v |-> ZeroJobStatusChange, err |-> "UnmarshalTypeError"]

\* What ParseJobStatusChange returns: the pointer (nil or to data) and the error
Parsed(isNil, data, err) == [isNil |-> isNil, data |-> data, err |-> err]

\* a faulty ParseJobStatusChange: the data is decoded before the type is
\* looked at
ParseJobStatusChangeDecodingFirst(event) ==
    LET r == Unmarshal(event.Data)
    IN  IF r.err # "nil"
        THEN Parsed(TRUE, ZeroJobStatusChange,
                    Wrap("parsing job status change", Errorf(r.err, 0, "", "")))
        ELSE IF event.Type # "job.status.changed"
        THEN Parsed(TRUE, ZeroJobStatusChange, Errorf("incorrect event type", 0, event.Type, ""))
        ELSE Parsed(FALSE, r.v, NoError)

\* src/unnamed/part_000:118 ParseJobStatusChange
ParseJobStatusChange(event) ==
    IF event.Type # "job.status.changed"
    THEN Parsed(TRUE, ZeroJobStatusChange, Errorf("incorrect event type", 0, event.Type, ""))
    ELSE LET r == Unmarshal(event.Data)
         IN  IF r.err # "nil"
             THEN Parsed(TRUE, ZeroJobStatusChange,
                         Wrap("parsing job status change", Errorf(r.err, 0, "", "")))
             ELSE Parsed(FALSE, r.v, NoError)

----------------------------------------------------------------------------
(* src/job.go, src/user.go, the group operations of src/README.md *)

\* One row for each operation: its method and path, the error of the
\* tenant check, and the messages put before a request error, before a
\* response error, and before the description of a response without success
Op(name, method, path, required, doing, parsing, failed) ==
    [name |-> name, method |-> method, path |-> path, required |-> required,
     doing |-> doing, parsing |-> parsing, failed |-> failed]

JobOperations ==
    {Op("GetJobs", "GET", "/jobs", "tenant ID is required for getting jobs",
        "getting jobs", "parsing jobs response", "get jobs failed"),
     Op("GetJob", "GET", "/jobs/id", "tenant ID is required for getting job",
        "getting job", "parsing job response", "get job failed"),
     Op("CancelJob", "POST", "/jobs/id/cancel", "tenant ID is required for cancelling job",
        "cancelling job", "parsing cancel response", "cancel job failed"),
     Op("DeleteJob", "DELETE", "/jobs/id", "tenant ID is required for deleting job",
        "deleting job", "parsing delete response", "delete job failed")}

UserOperations ==
    {Op("GetUsers", "GET", "/users", "tenant ID is required for getting users",
        "getting users", "parsing users response", "get users failed"),
     Op("GetUser", "GET", "/users/id", "tenant ID is required for getting user",
        "getting user", "parsing user response", "get user failed"),
     Op("CreateUser", "POST", "/users", "tenant ID is required for creating user",
        "creating user", "parsing user response", "create user failed"),
     Op("UpdateUser", "PUT", "/users/id", "tenant ID is required for updating user",
        "updating user", "parsing user response", "update user failed"),
     Op("DeleteUser", "DELETE", "/users/id", "tenant ID is required for deleting user",
        "deleting user", "parsing delete response", "delete user failed")}

GroupOperations ==
    {Op("GetGroups", "GET", "/groups", "tenant ID is required for getting groups",
        "getting groups", "parsing groups response", "get groups failed"),
     Op("GetGroup", "GET", "/groups/id", "tenant ID is required for getting group",
        "getting group", "parsing group response", "get group failed"),
     Op("CreateGroup", "POST", "/groups", "tenant ID is required for creating group",
        "creating group", "parsing group response", "create group failed"),
     Op("UpdateGroup", "PUT", "/groups/id", "tenant ID is required for updating group",
        "updating group", "parsing group response", "update group failed"),
     Op("DeleteGroup", "DELETE", "/groups/id", "tenant ID is required for deleting group",
        "deleting group", "parsing delete response", "delete group failed"),
     Op("AddGroupMember", "PUT", "/groups/id/users/id",
        "tenant ID is required for adding group member",
        "adding group member", "parsing add member response", "add group member failed"),
     Op("RemoveGroupMember", "DELETE", "/groups/id/users/id",
        "tenant ID is required for removing group member",
        "removing group member", "parsing remove member response",
        "remove group member failed")}

Operations == JobOperations \cup UserOperations \cup GroupOperations

\* no response body
NoBody == ApiText("")

\* The outcome of an API call: the client after the call, the error
\* returned, the requests sent, whether a result was returned besides the
\* error, and the response body the result was taken from
CallOutcome(c, err, sent, returned, body) ==
    [c |-> c, err |-> err, sent |-> sent, returned |-> returned, body |-> body]

\* a faulty operation: the success flag of the response is not looked at
InvokeUnchecked(op, c, t, authReply, apiReply) ==
    The({LET perr == parseResponse(out.resp)
         IN  IF c.tenantID = ""
             THEN CallOutcome(c, Errorf(op.required, 0, "", ""), <<>>, FALSE, NoBody)
             ELSE IF out.err # NoError
             THEN CallOutcome(out.c, Wrap(op.doing, out.err), out.sent, FALSE, NoBody)
             ELSE IF perr # NoError
             THEN CallOutcome(out.c, Wrap(op.parsing, perr), out.sent, FALSE, NoBody)
             ELSE CallOutcome(out.c, NoError, out.sent, TRUE, out.resp.body)
         : out \in {doRequest(c, t, op.method, URL("", op.path), authReply, apiReply)}})

\* The operations of job.go, user.go and the group file have one shape (for
\* example src/job.go:100 GetJob): the tenant check, doRequest,
\* parseResponse, the success flag
Invoke(op, c, t, authReply, apiReply) ==
    The({LET perr == parseResponse(out.resp)
         IN  IF c.tenantID = ""
             THEN CallOutcome(c, Errorf(op.required, 0, "", ""), <<>>, FALSE, NoBody)
             ELSE IF out.err # NoError
             THEN CallOutcome(out.c, Wrap(op.doing, out.err), out.sent, FALSE, NoBody)
             ELSE IF perr # NoError
             THEN CallOutcome(out.c, Wrap(op.parsing, perr), out.sent, FALSE, NoBody)
             ELSE IF ~out.resp.body.success
             THEN CallOutcome(out.c,
                      Errorf(op.failed, 0, out.resp.body.errorDescription, out.resp.body.errorId),
                      out.sent, FALSE, NoBody)
             ELSE CallOutcome(out.c, NoError, out.sent, TRUE, out.resp.body)
         : out \in {doRequest(c, t, op.method, URL("", op.path), authReply, apiReply)}})

----------------------------------------------------------------------------
(* src/print.go *)

submitEndpoint == "/cloudprint/tenants/%s/printers/%s/jobs"

\* A PrintJob: the PDL, the UseV11 flag, and whether one of the v1.1
\* properties (Color, Duplex, PageOrientation, Copies, MediaSize, Scaling)
\* is set
PrintJob(pdl, useV11, v11Properties, testMode) ==
    [PDL |-> pdl, UseV11 |-> useV11, v11Properties |-> v11Properties, TestMode |-> testMode]

\* src/print.go:73 Submit
Submit(c, t, job, authReply, apiReply) ==
    LET endpoint == [URL("", submitEndpoint) EXCEPT
                        !.query = [PDL |-> job.PDL, test |-> c.testMode \/ job.TestMode]]
        version  == IF job.UseV11 \/ job.v11Properties THEN "1.1" ELSE ""
    IN  The({LET perr == parseResponse(out.resp)
             IN  IF c.tenantID = ""
                 THEN CallOutcome(c, Errorf("tenant ID is required for job submission",
                                            0, "", ""),
                                  <<>>, FALSE, NoBody)
                 ELSE IF out.err # NoError
                 THEN CallOutcome(out.c, Wrap("submitting job", out.err), out.sent,
                                  FALSE, NoBody)
                 ELSE IF perr # NoError
                 THEN CallOutcome(out.c, Wrap("parsing submit response", perr), out.sent,
                                  FALSE, NoBody)
                 ELSE IF ~out.resp.body.success
                 THEN CallOutcome(out.c,
                          Errorf("submit failed", 0, out.resp.body.errorDescription,
                                 out.resp.body.errorId),
                          out.sent, FALSE, NoBody)
                 ELSE CallOutcome(out.c, NoError, out.sent, TRUE, out.resp.body)
             : out \in {doRequestWithHeaders(c, t, "POST", endpoint, version,
                                             authReply, apiReply)}})

\* src/print.go:176: the status of the storage's response is a failure
UploadStatusFails(status) == status # StatusCreated /\ status # StatusOK

\* src/print.go:152 UploadDocument: one PUT to the storage, without a token
UploadDocument(c, uploadLink, reply) ==
    LET put == Request("storage", "PUT", uploadLink, NoBearer)
    IN  IF ~Parses(uploadLink)
        THEN CallOutcome(c, Errorf("creating upload request", 0, "", ""), <<>>, FALSE, NoBody)
        ELSE IF reply.err
        THEN CallOutcome(c, Errorf("uploading document", 0, "", ""), <<put>>, FALSE, NoBody)
        ELSE IF UploadStatusFails(reply.status)
        THEN CallOutcome(c, Errorf("upload failed with status", reply.status,
                                   IF reply.body.err THEN "" ELSE reply.body.text, ""),
                         <<put>>, FALSE, NoBody)
        ELSE CallOutcome(c, NoError, <<put>>, FALSE, NoBody)

\* src/print.go:188 CompleteUpload
CompleteUpload(c, t, completeURL, authReply, apiReply) ==
    The({LET perr == parseResponse(out.resp)
         IN  IF out.err # NoError
             THEN CallOutcome(out.c, Wrap("completing upload", out.err), out.sent, FALSE, NoBody)
             ELSE IF perr # NoError
             THEN CallOutcome(out.c, Wrap("parsing complete response", perr), out.sent,
                              FALSE, NoBody)
             ELSE IF ~out.resp.body.success
             THEN CallOutcome(out.c,
                      Errorf("complete upload failed", 0, out.resp.body.errorDescription,
                             out.resp.body.errorId),
                      out.sent, FALSE, NoBody)
             ELSE CallOutcome(out.c, NoError, out.sent, FALSE, NoBody)
         : out \in {doRequest(c, t, "POST", completeURL, authReply, apiReply)}})

\* The outcome of PrintData and PrintFile: the client after the call, the
\* error returned, the requests sent and the stages entered, in order
PrintOutcome(c, err, sent, stages) == [c |-> c, err |-> err, sent |-> sent, stages |-> stages]

\* a faulty workflow: the upload's error is dropped and the upload completed
\* all the same
StagesIgnoringUpload(c, t, job, replies) ==
    The({
      IF sub.err # NoError
      THEN PrintOutcome(sub.c, Wrap("submitting print job", sub.err), sub.sent, <<"Submit">>)
      ELSE IF Len(sub.body.uploadLinks) = 0
      THEN PrintOutcome(sub.c, Errorf("no upload links provided", 0, "", ""), sub.sent,
                        <<"Submit">>)
      ELSE The({
                 The({
                   IF done.err # NoError
                   THEN PrintOutcome(done.c, Wrap("completing upload", done.err),
                                     sub.sent \o up.sent \o done.sent,
                                     <<"Submit", "UploadDocument", "CompleteUpload">>)
                   ELSE PrintOutcome(done.c, NoError, sub.sent \o up.sent \o done.sent,
                                     <<"Submit", "UploadDocument", "CompleteUpload">>)
                   : done \in {CompleteUpload(up.c, t, sub.body.uploadCompleted,
                                              replies.auth2, replies.complete)}})
             : up \in {UploadDocument(sub.c, sub.body.uploadLinks[1], replies.upload)}})
      : sub \in {Submit(c, t, job, replies.auth1, replies.api)}})

\* src/print.go:328-349 (PrintData) and 266-287 (PrintFile): the three stages
\* on a job; replies holds what the token endpoint, the API and the storage
\* answer when they are asked
Stages(c, t, job, replies) ==
    The({
      IF sub.err # NoError
      THEN PrintOutcome(sub.c, Wrap("submitting print job", sub.err), sub.sent, <<"Submit">>)
      ELSE IF Len(sub.body.uploadLinks) = 0
      THEN PrintOutcome(sub.c, Errorf("no upload links provided", 0, "", ""), sub.sent,
                        <<"Submit">>)
      ELSE The({
                 IF up.err # NoError
                 THEN PrintOutcome(up.c, Wrap("uploading document", up.err),
                                   sub.sent \o up.sent, <<"Submit", "UploadDocument">>)
                 ELSE
                 The({
                   IF done.err # NoError
                   THEN PrintOutcome(done.c, Wrap("completing upload", done.err),
                                     sub.sent \o up.sent \o done.sent,
                                     <<"Submit", "UploadDocument", "CompleteUpload">>)
                   ELSE PrintOutcome(done.c, NoError, sub.sent \o up.sent \o done.sent,
                                     <<"Submit", "UploadDocument", "CompleteUpload">>)
                   : done \in {CompleteUpload(up.c, t, sub.body.uploadCompleted,
                                              replies.auth2, replies.complete)}})
             : up \in {UploadDocument(sub.c, sub.body.uploadLinks[1], replies.upload)}})
      : sub \in {Submit(c, t, job, replies.auth1, replies.api)}})

\* PrintOptions: none (nil), or the options given
NoOptions == [given |-> FALSE]
Options == [given |-> TRUE]

\* src/print.go:291 PrintData
PrintData(c, t, pdl, options, replies) ==
    Stages(c, t, PrintJob(pdl, options.given, FALSE, c.testMode), replies)

\* the last four characters of a path longer than four characters
Extension(filePath) ==
    IF Len(filePath) > 4 THEN SubSeq(filePath, Len(filePath) - 3, Len(filePath)) ELSE <<>>

\* src/print.go:216-228: the PDL of a file by its path
PDLOf(filePath) ==
    LET ext == Extension(filePath)
    IN  IF ext = <<".", "z", "p", "l">> THEN "ZPL"
        ELSE IF ext = <<".", "p", "c", "l">> THEN "PCL5"
        ELSE IF ext = <<".", "p", "s">> THEN "POSTSCRIPT"
        ELSE IF ext = <<".", "x", "p", "s">> THEN "XPS"
        ELSE ""

\* src/print.go:208 PrintFile; file is the path and whether os.ReadFile fails
PrintFile(c, t, file, options, replies) ==
    IF file.err
    THEN PrintOutcome(c, Errorf("reading file", 0, "", ""), <<>>, <<>>)
    ELSE Stages(c, t, PrintJob(PDLOf(file.path), options.given, FALSE, c.testMode), replies)

----------------------------------------------------------------------------
(* src/unnamed/part_001: GetPrinters, GetAllPrinters *)

printersEndpoint == "/cloudprint/tenants/%s/printers"

\* src/unnamed/part_001:94 GetPrintersOptions
GetPrintersOptions(query, page, pageSize) ==
    [Query |-> query, Page |-> page, PageSize |-> pageSize]

\* The body of a PrintersResponse: success, message, the printers and
\* page.totalPages
PrintersBody(success, message, printers, totalPages) ==
    [json |-> TRUE, err |-> FALSE, text |-> "{\"printers\":...}", success |-> success,
     message |-> message, printers |-> printers, totalPages |-> totalPages]
PrintersText(text) ==
    [json |-> FALSE, err |-> FALSE, text |-> text, success |-> FALSE,
     message |-> "", printers |-> <<>>, totalPages |-> 0]

\* src/unnamed/part_001:108-123: the query parameters of a page request; a
\* parameter that is empty or zero is not sent
PrintersQuery(opts) ==
    [query    |-> IF opts.Query # "" THEN Present(opts.Query) ELSE Absent(""),
     page     |-> IF opts.Page > 0 THEN Present(opts.Page) ELSE Absent(0),
     pageSize |-> IF opts.PageSize > 0 THEN Present(opts.PageSize) ELSE Absent(0)]

\* src/unnamed/part_001:101 GetPrinters with options
GetPrinters(c, t, opts, authReply, apiReply) ==
    LET endpoint == [URL("", printersEndpoint) EXCEPT !.query = PrintersQuery(opts)]
    IN  The({LET perr == parseResponse(out.resp)
             IN  IF c.tenantID = ""
                 THEN CallOutcome(c, Errorf("tenant ID is required for getting printers",
                                            0, "", ""),
                                  <<>>, FALSE, PrintersText(""))
                 ELSE IF out.err # NoError
                 THEN CallOutcome(out.c, Wrap("getting printers", out.err), out.sent,
                                  FALSE, PrintersText(""))
                 ELSE IF perr # NoError
                 THEN CallOutcome(out.c, Wrap("parsing printers response", perr), out.sent,
                                  FALSE, PrintersText(""))
                 ELSE IF ~out.resp.body.success
                 THEN CallOutcome(out.c,
                          Errorf("get printers failed", 0, out.resp.body.message, ""),
                          out.sent, FALSE, PrintersText(""))
                 ELSE CallOutcome(out.c, NoError, out.sent, TRUE, out.resp.body)
             : out \in {doRequest(c, t, "GET", endpoint, authReply, apiReply)}})

\* a faulty end of the loop: one page more is asked for
LastPageLate(page, resp) == page >= resp.totalPages \/ Len(resp.printers) = 0

\* src/unnamed/part_001:160-162: the loop of GetAllPrinters ends after page
LastPage(page, resp) == page >= resp.totalPages - 1 \/ Len(resp.printers) = 0

\* A call of GetAllPrinters under way: where it is, the page of the next
\* request, allPrinters, what it returns, and for the record the requests
\* sent and the responses taken so far and the total the server keeps to (0
\* when it keeps to none)
Paging(pc, page, allPrinters, err, sent, taken, constant) ==
    [pc |-> pc, page |-> page, allPrinters |-> allPrinters, err |-> err,
     sent |-> sent, taken |-> taken, constant |-> constant]
NoPager == Paging("idle", 0, <<>>, NoError, <<>>, <<>>, 0)

\* src/unnamed/part_001:148-165: one turn of the loop of GetAllPrinters
GetAllPrintersTurn(p, c, t, authReply, apiReply) ==
    The({IF out.err # NoError
         THEN [c |-> out.c,
               p |-> [p EXCEPT !.pc = "done", !.allPrinters = <<>>,
                               !.err = Wrap("getting printers page", out.err),
                               !.sent = @ \o out.sent]]
         ELSE [c |-> out.c,
               p |-> [p EXCEPT !.pc = IF LastPage(p.page, out.body) THEN "done" ELSE "loop",
                               !.page = IF LastPage(p.page, out.body) THEN @ ELSE @ + 1,
                               !.allPrinters = @ \o out.body.printers,
                               !.sent = @ \o out.sent,
                               !.taken = Append(@, out.body)]]
         : out \in {GetPrinters(c, t, GetPrintersOptions("", p.page, 100),
                                authReply, apiReply)}})

----------------------------------------------------------------------------
(* The servers and the callers of the client *)

StatusUnauthorized == 401

\* the option lists New is called with
\* an auth URL of the caller's own
CustomAuthURL == URL("https://auth.example", "/oauth/token")

OptionLists ==
    {<<>>,
     <<WithTenantID("tenant")>>,
     <<WithTenantID("tenant"), WithTestMode>>,
     <<WithTestMode, WithAuthURL(CustomAuthURL)>>,
     <<WithAuthURL(CustomAuthURL), WithTestMode>>,
     <<WithTenantID("tenant"), WithTestMode, WithAuthURL(CustomAuthURL)>>,
     <<WithTenantID("tenant"), WithAuthURL(CustomAuthURL), WithTestMode>>,
     <<WithTenantID("tenant"), WithAuthURL(URL(MalformedBase, "/oauth/token"))>>,
     <<WithTenantID("tenant"), WithBaseURL(MalformedBase)>>}

\* the tokens and lifetimes (seconds) the token endpoint issues
AccessTokens == {"tok1", "tok2"}
ExpiresIn == {300, 600, 3600}

\* the body {} of a token response: JSON without access_token and expires_in,
\* which encoding/json decodes into the zero values
EmptyObject == TokenBody("", 0)

\* what the token endpoint answers
AuthReplies ==
    {DoError}
    \cup {Response(StatusOK, TokenBody(k, e)) : k \in AccessTokens, e \in ExpiresIn}
    \cup {Response(StatusOK, EmptyObject)}
    \cup {Response(StatusOK, TextBody("<html>")), Response(StatusOK, CutBody)}
    \cup {Response(s, b) : s \in {StatusCreated, StatusUnauthorized},
                           b \in {TokenBody("tok1", 3600), TextBody("Invalid credentials"),
                                  CutBody}}

\* the replies of the token endpoint that a call at clock t can meet: none
\* is asked for while the cached token is reused or no request can be built
AuthRepliesFor(c, t) ==
    IF Reuses(c, t) \/ ~Parses(c.authURL) THEN {DoError} ELSE AuthReplies

\* the rate-limit headers of the API's responses
RateLimitHeaders ==
    {[remaining |-> Absent(EmptyStr), reset |-> Absent(EmptyStr)],
     [remaining |-> Present(<<"5">>), reset |-> Present(FormatInt(StartSecond + 60))],
     [remaining |-> Present(<<"7">>), reset |-> Present(<<"1", "e", "9">>)],
     [remaining |-> Present(<<"a", "b", "c">>), reset |-> Present(<<"-">>)]}

\* an upload link and an uploadCompleted link of a SubmitResponse
UploadLink == URL("https://storage.example", "/upload")
CompletedLink == URL(defaultBaseURL, "/cloudprint/completeUpload")

\* what the API answers to a request of no particular operation
ApiReplies ==
    {ApiDoError}
    \cup {ApiResponse(s, b, h.remaining, h.reset) :
            s \in {StatusOK, 429},
            b \in {ApiBody(TRUE, "", "", <<>>, URL("", "")), ApiText("Too many requests")},
            h \in RateLimitHeaders}

\* the replies of the API that a request made after authReply can meet
ApiRepliesFor(c, t, endpoint, authReply, replies) ==
    IF \/ authenticate(c, t, authReply).err # NoError
       \/ ~IsAbsolute(endpoint) /\ c.baseURL = MalformedBase
    THEN {ApiDoError} ELSE replies

\* the endpoints doRequest is called with: relative to the API, and a link
Endpoints == {URL("", "/cloudprint"), CompletedLink}

\* no call made yet
NoReplies ==
    [auth1 |-> DoError, api |-> ApiDoError, upload |-> DoError, auth2 |-> DoError,
     complete |-> ApiDoError]
NoCall ==
    [op |-> "", at |-> 0, before |-> New("", "", <<>>), err |-> NoError, sent |-> <<>>,
     stages |-> <<>>, returned |-> FALSE, body |-> NoBody, replies |-> NoReplies,
     file |-> <<>>, opts |-> <<>>]

\* the record of a call of op made at clock t on client c (file and opts are
\* the path given to PrintFile and the options given to New)
Call(op, c, t, out, stages, returned, body, replies) ==
    [op |-> op, at |-> t, before |-> c, err |-> out.err, sent |-> out.sent,
     stages |-> stages, returned |-> returned, body |-> body, replies |-> replies,
     file |-> <<>>, opts |-> <<>>]

\* the goroutines that call doRequest on the one client
Goroutines == {1, 2}

\* the most token responses the token endpoint issues, and their tokens: each
\* response carries a token of its own
MaxIssued == 3
Tokens == <<"tok1", "tok2", "tok3", "tok4", "tok5">>

\* What a read of the string accessToken gives while a write of it is under
\* way in another goroutine, and what two such writes at once leave behind:
\* the pointer of one value with the length of the other
Torn == "(torn)"

----------------------------------------------------------------------------
(* Initial values *)

\* no signature under test
NoSignature ==
    [stage |-> "none", payload |-> <<>>, signer |-> "", signature |-> EmptyText,
     verifier |-> "", ok |-> FALSE]

\* no goroutine inside doRequest, no token issued yet
NoAuthResp == [access_token |-> "", expires_in |-> 0]
NoRoutines ==
    [pc |-> [g \in Goroutines |-> "idle"],
     authResp |-> [g \in Goroutines |-> NoAuthResp],
     bearer |-> [g \in Goroutines |-> NoBearer],
     issued |-> 0,
     stored |-> {}]

\* no event under test
NoEvent ==
    [stage |-> "none", event |-> WebhookEvent("", RawMessage("empty")),
     out |-> Parsed(TRUE, ZeroJobStatusChange, NoError)]

----------------------------------------------------------------------------
(* The state machine *)

Init ==
    /\ \E s \in ActiveSecrets : validator = NewWebhookValidator(s)
    /\ now = StartSecond * Second
    /\ req = NoRequest
    /\ calls = <<>>
    /\ sgn = NoSignature
    /\ client = New("id", "secret", <<>>)
    /\ last = NoCall
    /\ routines = NoRoutines
    /\ parsed = NoEvent
    /\ pager = NoPager

\* a validator is constructed anew (a restart with another active secret)
Construct ==
    /\ \E s \in ActiveSecrets : validator' = NewWebhookValidator(s)
    /\ calls' = <<>>
    /\ UNCHANGED <<now, req, exceptWebhook>>

Rotate ==
    /\ \E s \in OldSecrets : validator' = SetOldSecret(validator, s)
    /\ calls' = <<>>
    /\ UNCHANGED <<now, req, exceptWebhook>>

Tick ==
    /\ now < StartSecond * Second + MaxElapsed
    /\ now' = now + 1
    /\ calls' = <<>>
    /\ UNCHANGED <<validator, req, exceptWebhook>>

\* a request arrives
Receive ==
    /\ req = NoRequest
    /\ \E ts \in TimestampHeaders(now), body \in Bodies :
         \E sig \in SignatureHeaders(ts, body) :
            req' = [header |-> [timestamp |-> ts, signature |-> sig], body |-> body]
    /\ calls' = <<>>
    /\ UNCHANGED <<validator, now, exceptWebhook>>

Validate ==
    /\ Len(calls) < MaxCalls
    /\ LET out == ValidateRequest(validator, req, now)
       IN  /\ validator' = out.v
           /\ req' = [req EXCEPT !.body = out.body]
           /\ calls' = Append(calls,
                 [op |-> "ValidateRequest", before |-> req, after |-> out.body, err |-> out.err,
                  cause |-> out.cause, checks |-> out.checks, tried |-> out.tried,
                  bytes |-> out.bytes, payload |-> out.payload])
    /\ UNCHANGED <<now, exceptWebhook>>

Parse ==
    /\ Len(calls) < MaxCalls
    /\ LET out == ParseWebhookPayload(req)
       IN  /\ req' = [req EXCEPT !.body = out.body]
           /\ calls' = Append(calls,
                 [op |-> "ParseWebhookPayload", before |-> req, after |-> out.body, err |-> out.err,
                  cause |-> "", checks |-> <<>>, tried |-> <<>>,
                  bytes |-> out.bytes, payload |-> <<>>])
    /\ UNCHANGED <<validator, now, exceptWebhook>>

\* the handler returns and the request is dropped
Respond ==
    /\ req # NoRequest
    /\ req' = NoRequest
    /\ calls' = <<>>
    /\ UNCHANGED <<validator, now, exceptWebhook>>

Next == Construct \/ Rotate \/ Tick \/ Receive \/ Validate \/ Parse \/ Respond

Spec == Init /\ [][Next]_vars

----------------------------------------------------------------------------
(* SpecSign: a sender signs a payload, a receiver verifies the signature *)

\* the secrets of the two sides
Secrets == {"", "A", "B", "C", Zero, AZero}

\* the payloads signed: "<timestamp>.<body>"
SignedPayloads == {Sprintf(FormatInt(StartSecond), b.data) : b \in Bodies}

\* the sender computes the lower-case hex HMAC-SHA512 of a payload
Sign ==
    /\ sgn.stage = "none"
    /\ \E payload \in SignedPayloads, secret \in Secrets :
         sgn' = [stage |-> "signed", payload |-> payload, signer |-> secret,
                 signature |-> EncodeToString(Hmac(secret, payload)),
                 verifier |-> "", ok |-> FALSE]
    /\ UNCHANGED <<webhookVars, clientVars, raceVars, eventVars, pageVars>>

\* the receiver hands payload and signature to verifySignature with its secret
Verify ==
    /\ sgn.stage = "signed"
    /\ \E secret \in Secrets :
         sgn' = [sgn EXCEPT !.stage = "verified", !.verifier = secret,
                            !.ok = verifySignature(sgn.payload, sgn.signature, secret)]
    /\ UNCHANGED <<webhookVars, clientVars, raceVars, eventVars, pageVars>>

Discard ==
    /\ sgn.stage = "verified"
    /\ sgn' = NoSignature
    /\ UNCHANGED <<webhookVars, clientVars, raceVars, eventVars, pageVars>>

NextSign == Sign \/ Verify \/ Discard

SpecSign == Init /\ [][NextSign]_vars

----------------------------------------------------------------------------
(* SpecClient: the token manager and the request layer of one client, its *)
(* calls made one after the other                                          *)

\* ticks from the start of the clock to the instants calls are made at
Elapsed == {0, 2000 * Second, 3000 * Second - 1, 3000 * Second, 3600 * Second}

InitClient ==
    /\ validator = NewWebhookValidator("A")
    /\ now = StartSecond * Second
    /\ req = NoRequest
    /\ calls = <<>>
    /\ sgn = NoSignature
    /\ client = New("id", "secret", <<>>)
    /\ last = NoCall
    /\ routines = NoRoutines
    /\ parsed = NoEvent
    /\ pager = NoPager

\* New is called
NewClient ==
    /\ last = NoCall
    /\ \E opts \in OptionLists :
         /\ client' = New("id", "secret", opts)
         /\ last' = [NoCall EXCEPT !.op = "New", !.at = now, !.opts = opts]
    /\ UNCHANGED <<validator, now, req, calls, signVars, raceVars, eventVars, pageVars>>

\* time passes
Advance ==
    /\ last = NoCall
    /\ \E d \in Elapsed :
         /\ StartSecond * Second + d > now
         /\ now' = StartSecond * Second + d
    /\ last' = NoCall
    /\ UNCHANGED <<validator, req, calls, signVars, raceVars, eventVars, pageVars, client>>

\* the caller has its result
Return ==
    /\ last # NoCall
    /\ last' = NoCall
    /\ UNCHANGED <<webhookVars, signVars, raceVars, eventVars, pageVars, client>>

CallAuthenticate ==
    /\ last = NoCall
    /\ \E reply \in AuthRepliesFor(client, now) :
         LET out == authenticate(client, now, reply)
         IN  /\ client' = out.c
             /\ last' = Call("authenticate", client, now, out, <<>>, FALSE, NoBody,
                             [NoReplies EXCEPT !.auth1 = reply])
    /\ UNCHANGED <<validator, now, req, calls, signVars, raceVars, eventVars, pageVars>>

CallDoRequest ==
    /\ last = NoCall
    /\ \E endpoint \in Endpoints, authReply \in AuthRepliesFor(client, now) :
         \E apiReply \in ApiRepliesFor(client, now, endpoint, authReply, ApiReplies) :
            LET out == doRequest(client, now, "GET", endpoint, authReply, apiReply)
            IN  /\ client' = out.c
                /\ last' = Call("doRequest", client, now, out, <<>>, out.err = NoError,
                                out.resp.body,
                                [NoReplies EXCEPT !.auth1 = authReply, !.api = apiReply])
    /\ UNCHANGED <<validator, now, req, calls, signVars, raceVars, eventVars, pageVars>>

NextClient == NewClient \/ Advance \/ CallAuthenticate \/ CallDoRequest \/ Return

SpecClient == InitClient /\ [][NextClient]_vars

----------------------------------------------------------------------------
(* SpecPrint: the operations and the print workflow of one client, its    *)
(* calls made one after the other at one instant                           *)

\* what the token endpoint answers to the calls of SpecPrint
PrintAuthReplies ==
    {DoError,
     Response(StatusOK, TokenBody("tok1", 3600)),
     Response(StatusOK, TokenBody("tok2", 600)),
     Response(StatusUnauthorized, TextBody("Invalid credentials"))}

PrintAuthRepliesFor(c, t) ==
    IF Reuses(c, t) \/ ~Parses(c.authURL) THEN {DoError} ELSE PrintAuthReplies

NoHeader == Absent(EmptyStr)

\* what the API answers to the operations of job.go, user.go and the groups,
\* and to CompleteUpload
OperationReplies ==
    {ApiDoError,
     ApiResponse(StatusOK, ApiBody(TRUE, "", "", <<>>, URL("", "")), NoHeader, NoHeader),
     ApiResponse(StatusOK, ApiBody(FALSE, "Printer offline", "E42", <<>>, URL("", "")),
                 NoHeader, NoHeader),
     ApiResponse(StatusCreated, ApiBody(FALSE, "", "", <<>>, URL("", "")),
                 NoHeader, NoHeader),
     ApiResponse(StatusOK, ApiCut, NoHeader, NoHeader),
     ApiResponse(500, ApiText("Internal error"), NoHeader, NoHeader)}

\* what the API answers to Submit
SubmitReplies ==
    {ApiDoError,
     ApiResponse(StatusOK, ApiBody(TRUE, "", "", <<UploadLink>>, CompletedLink),
                 NoHeader, NoHeader),
     ApiResponse(StatusCreated,
                 ApiBody(TRUE, "", "", <<UploadLink, URL(MalformedBase, "")>>, CompletedLink),
                 NoHeader, NoHeader),
     ApiResponse(StatusOK, ApiBody(TRUE, "", "", <<URL(MalformedBase, "")>>, CompletedLink),
                 NoHeader, NoHeader),
     ApiResponse(StatusOK, ApiBody(TRUE, "", "", <<>>, CompletedLink), NoHeader, NoHeader),
     ApiResponse(StatusOK, ApiBody(FALSE, "Printer offline", "E42", <<UploadLink>>,
                                   CompletedLink),
                 NoHeader, NoHeader),
     ApiResponse(StatusOK, ApiText("<html>"), NoHeader, NoHeader),
     ApiResponse(400, ApiText("Bad request"), NoHeader, NoHeader)}

\* what the storage answers to the PUT
UploadReplies ==
    {DoError,
     Response(StatusOK, TextBody("")),
     Response(StatusCreated, TextBody("")),
     Response(204, TextBody("")),
     Response(403, TextBody("Forbidden"))}

\* the jobs PrintData is called for: a PDL, and options or none
PrintDataJobs == {[pdl |-> "", options |-> NoOptions], [pdl |-> "PCL5", options |-> Options]}

\* the files PrintFile is called for: a path, and whether it can be read
File(path, err) == [path |-> path, err |-> err]
PrintFiles ==
    {File(<<"a", ".", "z", "p", "l">>, FALSE),
     File(<<"a", ".", "p", "d", "f">>, FALSE),
     File(<<"a", "b", ".", "p", "s">>, FALSE),
     File(<<"a", ".", "x", "p", "s">>, FALSE),
     File(<<"a", ".", "p", "c", "l">>, FALSE),
     File(<<"a", ".", "p", "c", "l">>, TRUE)}

\* The answers a run of the three stages on a job can meet: a stage that is
\* not reached is not answered
StageReplies(c, t, job) ==
    UNION {
      UNION {
        LET sub     == Submit(c, t, job, a1, s)
            reached == sub.err = NoError /\ Len(sub.body.uploadLinks) > 0
        IN  UNION {
              LET up == UploadDocument(sub.c, sub.body.uploadLinks[1], u)
                  uploaded == reached /\ up.err = NoError
              IN  UNION {
                    {[auth1 |-> a1, api |-> s, upload |-> u, auth2 |-> a2, complete |-> d] :
                       d \in IF uploaded
                             THEN ApiRepliesFor(sub.c, t, sub.body.uploadCompleted, a2,
                                                OperationReplies)
                             ELSE {ApiDoError}} :
                    a2 \in IF uploaded THEN PrintAuthRepliesFor(sub.c, t) ELSE {DoError}} :
              u \in IF reached /\ Parses(sub.body.uploadLinks[1])
                    THEN UploadReplies ELSE {DoError}} :
        s \in ApiRepliesFor(c, t, URL("", submitEndpoint), a1,
                            IF c.tenantID = "" THEN {ApiDoError} ELSE SubmitReplies)} :
      a1 \in IF c.tenantID = "" THEN {DoError} ELSE PrintAuthRepliesFor(c, t)}

\* one of the operations of job.go, user.go and the groups is called
CallOperation ==
    /\ last = NoCall
    /\ \E op \in Operations :
         \E authReply \in IF client.tenantID = "" THEN {DoError}
                          ELSE PrintAuthRepliesFor(client, now) :
           \E apiReply \in ApiRepliesFor(client, now, URL("", op.path), authReply,
                              IF client.tenantID = "" THEN {ApiDoError}
                              ELSE OperationReplies) :
              LET out == Invoke(op, client, now, authReply, apiReply)
              IN  /\ client' = out.c
                  /\ last' = Call(op.name, client, now, out, <<>>, out.returned, out.body,
                                  [NoReplies EXCEPT !.auth1 = authReply, !.api = apiReply])
    /\ UNCHANGED <<webhookVars, signVars, raceVars, eventVars, pageVars>>

\* the jobs Submit is called with
SubmitJobs == {PrintJob("", FALSE, FALSE, FALSE), PrintJob("ZPL", FALSE, TRUE, TRUE)}

CallSubmit ==
    /\ last = NoCall
    /\ \E job \in SubmitJobs :
         \E authReply \in IF client.tenantID = "" THEN {DoError}
                          ELSE PrintAuthRepliesFor(client, now) :
           \E apiReply \in ApiRepliesFor(client, now, URL("", submitEndpoint), authReply,
                              IF client.tenantID = "" THEN {ApiDoError}
                              ELSE SubmitReplies) :
              LET out == Submit(client, now, job, authReply, apiReply)
              IN  /\ client' = out.c
                  /\ last' = Call("Submit", client, now, out, <<>>, out.returned, out.body,
                                  [NoReplies EXCEPT !.auth1 = authReply, !.api = apiReply])
    /\ UNCHANGED <<webhookVars, signVars, raceVars, eventVars, pageVars>>

CallUploadDocument ==
    /\ last = NoCall
    /\ \E uploadLink \in {UploadLink, URL(MalformedBase, "")} :
         \E reply \in IF Parses(uploadLink) THEN UploadReplies ELSE {DoError} :
            LET out == UploadDocument(client, uploadLink, reply)
            IN  /\ client' = out.c
                /\ last' = Call("UploadDocument", client, now, out, <<>>, FALSE, NoBody,
                                [NoReplies EXCEPT !.upload = reply])
    /\ UNCHANGED <<webhookVars, signVars, raceVars, eventVars, pageVars>>

CallCompleteUpload ==
    /\ last = NoCall
    /\ \E completeURL \in {CompletedLink, URL("", "")} :
         \E authReply \in PrintAuthRepliesFor(client, now) :
           \E apiReply \in ApiRepliesFor(client, now, completeURL, authReply,
                                         OperationReplies) :
              LET out == CompleteUpload(client, now, completeURL, authReply, apiReply)
              IN  /\ client' = out.c
                  /\ last' = Call("CompleteUpload", client, now, out, <<>>, FALSE, NoBody,
                                  [NoReplies EXCEPT !.auth1 = authReply, !.api = apiReply])
    /\ UNCHANGED <<webhookVars, signVars, raceVars, eventVars, pageVars>>

CallPrintData ==
    /\ last = NoCall
    /\ \E j \in PrintDataJobs :
         \E replies \in StageReplies(client, now,
                                     PrintJob(j.pdl, j.options.given, FALSE, client.testMode)) :
            LET out == PrintData(client, now, j.pdl, j.options, replies)
            IN  /\ client' = out.c
                /\ last' = Call("PrintData", client, now, out, out.stages, FALSE, NoBody,
                                replies)
    /\ UNCHANGED <<webhookVars, signVars, raceVars, eventVars, pageVars>>

CallPrintFile ==
    /\ last = NoCall
    /\ \E file \in PrintFiles, options \in {NoOptions, Options} :
         \E replies \in IF file.err THEN {NoReplies}
                        ELSE StageReplies(client, now,
                                 PrintJob(PDLOf(file.path), options.given, FALSE,
                                          client.testMode)) :
            LET out == PrintFile(client, now, file, options, replies)
            IN  /\ client' = out.c
                /\ last' = [Call("PrintFile", client, now, out, out.stages, FALSE, NoBody,
                                 replies) EXCEPT !.file = file.path]
    /\ UNCHANGED <<webhookVars, signVars, raceVars, eventVars, pageVars>>

NextPrint ==
    \/ NewClient \/ Return \/ CallOperation \/ CallSubmit \/ CallUploadDocument
    \/ CallCompleteUpload \/ CallPrintData \/ CallPrintFile

SpecPrint == InitClient /\ [][NextPrint]_vars

----------------------------------------------------------------------------
(* SpecRace: the goroutines of Goroutines inside doRequest on one client,  *)
(* one step for each access of accessToken and tokenExpiry, which no lock  *)
(* guards                                                                  *)

\* goroutine h is about to run the line at pc while g runs its own
Racing(g, pc) == \E h \in Goroutines \ {g} : routines.pc[h] = pc

\* what a read of c.accessToken by g can give
ReadToken(g) == {client.accessToken} \cup (IF Racing(g, "l143") THEN {Torn} ELSE {})

\* what the comparison of time.Now() with c.tokenExpiry by g can give (a
\* time.Time is three words, written one after the other)
ReadFresh(g) ==
    {Before(now, Add(client.tokenExpiry, -tokenRenewalBuffer * Second))}
    \cup (IF Racing(g, "l145") THEN BOOLEAN ELSE {})

\* the tokens issued so far
IssuedTokens == {Tokens[n] : n \in 1..routines.issued}

\* a goroutine calls doRequest
Go ==
    /\ \E g \in Goroutines :
         /\ routines.pc[g] = "idle"
         /\ routines' = [routines EXCEPT !.pc[g] = "l102"]
    /\ UNCHANGED <<webhookVars, signVars, clientVars, eventVars, pageVars>>

\* src/unnamed/part_003:102: the token is good, or a new one is needed
CheckToken ==
    /\ \E g \in Goroutines :
         /\ routines.pc[g] = "l102"
         /\ \E token \in ReadToken(g), fresh \in ReadFresh(g) :
              routines' = [routines EXCEPT
                             !.pc[g] = IF token # "" /\ fresh THEN "l176" ELSE "l119"]
    /\ UNCHANGED <<webhookVars, signVars, clientVars, eventVars, pageVars>>

\* src/unnamed/part_003:119-141: the token endpoint is asked; it refuses, or
\* answers with a token of its own and a lifetime
AskToken ==
    /\ \E g \in Goroutines :
         /\ routines.pc[g] = "l119"
         /\ \/ routines' = [routines EXCEPT !.pc[g] = "done"]
            \/ /\ routines.issued < MaxIssued
               /\ routines.issued < Len(Tokens)
               /\ \E e \in ExpiresIn :
                    routines' = [routines EXCEPT
                        !.pc[g] = "l143",
                        !.issued = @ + 1,
                        !.authResp[g] = [access_token |-> Tokens[routines.issued + 1],
                                         expires_in |-> e]]
    /\ UNCHANGED <<webhookVars, signVars, clientVars, eventVars, pageVars>>

\* src/unnamed/part_003:143: c.accessToken = authResp.AccessToken
WriteToken ==
    /\ \E g \in Goroutines :
         /\ routines.pc[g] = "l143"
         /\ \E token \in {routines.authResp[g].access_token}
                         \cup (IF Racing(g, "l143") THEN {Torn} ELSE {}) :
              client' = [client EXCEPT !.accessToken = token]
         /\ routines' = [routines EXCEPT !.pc[g] = "l145"]
    /\ UNCHANGED <<webhookVars, signVars, last, eventVars, pageVars>>

\* src/unnamed/part_003:145: c.tokenExpiry = time.Now().Add(...)
WriteExpiry ==
    /\ \E g \in Goroutines :
         /\ routines.pc[g] = "l145"
         /\ LET expiry == At(now + routines.authResp[g].expires_in * Second)
            IN  /\ client' = [client EXCEPT !.tokenExpiry = expiry]
                /\ routines' = [routines EXCEPT
                      !.pc[g] = "l176",
                      !.stored = @ \cup {[token  |-> routines.authResp[g].access_token,
                                          expiry |-> expiry]}]
    /\ UNCHANGED <<webhookVars, signVars, last, eventVars, pageVars>>

\* src/unnamed/part_003:176-181: the Authorization header is set from
\* c.accessToken and the request sent
SendRequest ==
    /\ \E g \in Goroutines :
         /\ routines.pc[g] = "l176"
         /\ \E token \in ReadToken(g) :
              routines' = [routines EXCEPT !.pc[g] = "done", !.bearer[g] = token]
    /\ UNCHANGED <<webhookVars, signVars, clientVars, eventVars, pageVars>>

\* doRequest returns
Finish ==
    /\ \E g \in Goroutines :
         /\ routines.pc[g] = "done"
         /\ routines' = [routines EXCEPT !.pc[g] = "idle", !.bearer[g] = NoBearer,
                                         !.authResp[g] = NoAuthResp]
    /\ UNCHANGED <<webhookVars, signVars, clientVars, eventVars, pageVars>>

NextRace ==
    \/ Go \/ CheckToken \/ AskToken \/ WriteToken \/ WriteExpiry \/ SendRequest
    \/ Finish \/ Advance

SpecRace == InitClient /\ [][NextRace]_vars

----------------------------------------------------------------------------
(* SpecPages: GetAllPrinters on a client with a tenant, one turn of its    *)
(* loop at a step, against a server that keeps to a total of pages or to   *)
(* none                                                                     *)

\* the most pages a server of the model keeps to; a server that keeps to no
\* total is asked for the pages 0..MaxPages at most
MaxPages == 3

\* the printers of a page: n of them
PagePrinters(page, n) == [i \in 1..n |-> [page |-> page, printer |-> i]]

\* what the API answers to the request for a page, for a server that keeps to
\* the total constant (and has no empty page and no failure) and for one that
\* keeps to none
PageReplies(page, constant) ==
    IF constant > 0
    THEN {ApiResponse(StatusOK, PrintersBody(TRUE, "", PagePrinters(page, n), constant),
                      NoHeader, NoHeader) : n \in 1..2}
    ELSE {ApiDoError,
          ApiResponse(500, PrintersText("Internal error"), NoHeader, NoHeader),
          ApiResponse(StatusOK, PrintersBody(FALSE, "Tenant not found", <<>>, 0),
                      NoHeader, NoHeader)}
         \cup {ApiResponse(StatusOK, PrintersBody(TRUE, "", PagePrinters(page, n), total),
                           NoHeader, NoHeader) : n \in 0..2, total \in 0..(MaxPages + 1)}

\* what the token endpoint answers during the call
PageAuthReplies(c, t, constant) ==
    IF Reuses(c, t) THEN {DoError}
    ELSE IF constant > 0 THEN {Response(StatusOK, TokenBody("tok1", 3600))}
    ELSE {DoError, Response(StatusOK, TokenBody("tok1", 3600)),
          Response(StatusOK, TokenBody("tok2", 600))}

\* GetAllPrinters is called on a new client
CallGetAllPrinters ==
    /\ pager.pc = "idle"
    /\ \E constant \in 0..MaxPages :
         pager' = [NoPager EXCEPT !.pc = "loop", !.constant = constant]
    /\ \E opts \in {<<WithTenantID("tenant")>>, <<>>} :
         /\ opts = <<>> => pager'.constant = 0
         /\ client' = New("id", "secret", opts)
    /\ UNCHANGED <<webhookVars, signVars, last, raceVars, eventVars>>

\* one turn of the loop: a page is asked for
GetPage ==
    /\ pager.pc = "loop"
    /\ pager.page <= MaxPages
    /\ \E authReply \in PageAuthReplies(client, now, pager.constant) :
         \E apiReply \in ApiRepliesFor(client, now, URL("", printersEndpoint), authReply,
                            IF client.tenantID = "" THEN {ApiDoError}
                            ELSE PageReplies(pager.page, pager.constant)) :
            LET turn == GetAllPrintersTurn(pager, client, now, authReply, apiReply)
            IN  /\ client' = turn.c
                /\ pager' = turn.p
    /\ UNCHANGED <<webhookVars, signVars, last, raceVars, eventVars>>

\* GetAllPrinters returns
ReturnPrinters ==
    /\ pager.pc = "done"
    /\ pager' = NoPager
    /\ UNCHANGED <<webhookVars, signVars, clientVars, raceVars, eventVars>>

NextPages == CallGetAllPrinters \/ GetPage \/ ReturnPrinters

\* a call under way goes on
SpecPages == InitClient /\ [][NextPages]_vars /\ WF_vars(GetPage)

----------------------------------------------------------------------------
(* SpecEvent: ParseJobStatusChange and the classification applied to the   *)
(* events a sender can make                                                *)

\* the most members an object of the model has
MaxMembers == 2

EventTypes ==
    {"job.status.changed", "printer.online", "Job.Status.Changed", "job.status.changed ", ""}

\* the members the objects of the model are made of
Members ==
    {Member("jobId", JSONString("job-123")),
     Member("JOBID", JSONString("job-999")),
     Member("jobId", JSONNumber("123")),
     Member("printerId", JSONString("printer-456")),
     Member("status", JSONString("completed")),
     Member("status", JSONNull),
     Member("message", JSONString("Print completed successfully")),
     Member("pages", JSONNumber("3"))}

RECURSIVE MemberLists(_)
MemberLists(n) ==
    IF n = 0 THEN {<<>>}
    ELSE MemberLists(n - 1)
         \cup {Append(l, m) : l \in {k \in MemberLists(n - 1) : Len(k) = n - 1}, m \in Members}

\* the Data of the events
EventData ==
    {Object(l) : l \in MemberLists(MaxMembers)}
    \cup {RawMessage(k) : k \in {"null", "array", "malformed", "empty"}}

\* an event has been decoded from a request
Deliver ==
    /\ parsed.stage = "none"
    /\ \E type \in EventTypes, data \in EventData :
         parsed' = [NoEvent EXCEPT !.stage = "event", !.event = WebhookEvent(type, data)]
    /\ UNCHANGED <<webhookVars, signVars, clientVars, raceVars, pageVars>>

\* the handler calls ParseJobStatusChange on it
CallParseJobStatusChange ==
    /\ parsed.stage = "event"
    /\ parsed' = [parsed EXCEPT !.stage = "parsed", !.out = ParseJobStatusChange(parsed.event)]
    /\ UNCHANGED <<webhookVars, signVars, clientVars, raceVars, pageVars>>

\* the names, links and times of the events of a payload
EventNames ==
    {<<"R", "E", "S", "O", "U", "R", "C", "E", ".", "T", "E", "N", "A", "N", "T", "_", "U", "S", "E", "R", ".", "C", "R", "E", "A", "T", "E">>,
     <<"r", "e", "s", "o", "u", "r", "c", "e", ".", "t", "e", "n", "a", "n", "t", "_", "u", "s", "e", "r", ".", "c", "r", "e", "a", "t", "e">>,
     <<"R", "E", "S", "O", "U", "R", "C", "E", ".", "T", "E", "N", "A", "N", "T", "_", "U", "S", "E", "R", ".", "C", "R", "E", "A", "T", "E", "D">>,
     <<"R", "E", "S", "O", "U", "R", "C", "E", ".", "J", "O", "B", ".", "S", "T", "A", "T", "U", "S">>,
     <<"J", "O", "B", "S", "T", "A", "T", "U", "S">>,
     <<"S", "T", "A", "T", "U", "S", ".", "J", "O", "B">>,
     <<"J", "O", "B">>,
     <<"S", "T", "A", "T", "U", "S">>,
     <<"j", "o", "b", ".", "s", "t", "a", "t", "u", "s">>,
     <<"J", "O", "B", ".", "S", "T", "A", "T", "U", ".", "S">>,
     <<>>}
EventHrefs == {"", "https://api.printix.net/users/1", "JOB.STATUS"}
EventTimes == {0, 1700000000, -1}

\* an event of a payload is at hand
DeliverNamed ==
    /\ parsed.stage = "none"
    /\ \E name \in EventNames, href \in EventHrefs, time \in EventTimes :
         parsed' = [stage |-> "named", event |-> NamedEvent(name, href, time),
                    out |-> [IsUserCreateEvent |-> FALSE, IsJobStatusChangeEvent |-> FALSE]]
    /\ UNCHANGED <<webhookVars, signVars, clientVars, raceVars, pageVars>>

\* the handler classifies it
Classify ==
    /\ parsed.stage = "named"
    /\ parsed' = [parsed EXCEPT
                    !.stage = "classified",
                    !.out = [IsUserCreateEvent |-> IsUserCreateEvent(parsed.event),
                             IsJobStatusChangeEvent |-> IsJobStatusChangeEvent(parsed.event)]]
    /\ UNCHANGED <<webhookVars, signVars, clientVars, raceVars, pageVars>>

\* the handler is done with the event
Drop ==
    /\ parsed.stage \in {"parsed", "classified"}
    /\ parsed' = NoEvent
    /\ UNCHANGED <<webhookVars, signVars, clientVars, raceVars, pageVars>>

NextEvent == Deliver \/ CallParseJobStatusChange \/ DeliverNamed \/ Classify \/ Drop

SpecEvent == InitClient /\ [][NextEvent]_vars

----------------------------------------------------------------------------
(* What the properties speak of *)

\* the recorded calls of ValidateRequest
ValidateCalls == {i \in DOMAIN calls : calls[i].op = "ValidateRequest"}

\* the header values of a request as the handler reads them
TimestampOf(r) == IF r.header.timestamp.present THEN r.header.timestamp.value ELSE <<>>
SignatureOf(r) == IF r.header.signature.present THEN r.header.signature.value ELSE EmptyText

\* s is an optional sign followed by one or more decimal digits
IsDecimal(s) ==
    LET d == IF s # <<>> /\ s[1] \in {"+", "-"} THEN Tail(s) ELSE s
    IN  d # <<>> /\ \A i \in DOMAIN d : d[i] \in Digits

\* s is the decimal text of a number of -2^63 .. 2^63 - 1
IsInt64(s) ==
    /\ IsDecimal(s)
    /\ LET d == StripZeros(IF s[1] \in {"+", "-"} THEN Tail(s) ELSE s)
       IN  IF s[1] = "-" THEN DigitsLeq(d, MinInt64Magnitude)
           ELSE DigitsLeq(d, MaxInt64Digits)

\* the seconds a timestamp text of at most eight digits stands for
SecondsOf(s) ==
    LET d == IF s[1] \in {"+", "-"} THEN Tail(s) ELSE s
    IN  IF s[1] = "-" THEN -DigitsValue(d) ELSE DigitsValue(d)

\* the text s is a timestamp of the closed interval [t - 15 min, t + 15 min]
InWindow(s, t) ==
    /\ IsInt64(s)
    /\ Len(StripZeros(IF s[1] \in {"+", "-"} THEN Tail(s) ELSE s)) <= 8
    /\ t - 15 * 60 * TicksPerSecond <= SecondsOf(s) * TicksPerSecond
    /\ SecondsOf(s) * TicksPerSecond <= t + 15 * 60 * TicksPerSecond

\* the lower-case hex HMAC-SHA512 of "<timestamp header>.<body>" of r under key k
SignatureUnder(r, k) == EncodeToString(Hmac(k, TimestampOf(r) \o <<".">> \o r.body.data))

\* r carries the signature of the validator's active secret, or of its
\* previous secret when one is set
SignedByValidator(r) ==
    \/ SignatureOf(r) = SignatureUnder(r, validator.sharedSecret)
    \/ /\ validator.oldSharedSecret # ""
       /\ SignatureOf(r) = SignatureUnder(r, validator.oldSharedSecret)

----------------------------------------------------------------------------
(* Properties *)

\* C1: ValidateRequest returns nil only for a request whose timestamp header
\* parses as integer seconds inside the 15-minute window and whose non-empty
\* signature header is the lower-case hex HMAC-SHA512 of
\* "<timestamp header>.<body>" under the active secret or under a non-empty
\* previous secret; every other request gets an error.
C1_AcceptOnlyAuthentic ==
    \A i \in ValidateCalls :
        LET r == calls[i].before
        IN  calls[i].err = "nil" =>
              /\ r.header.timestamp.present
              /\ InWindow(TimestampOf(r), now)
              /\ r.header.signature.present
              /\ SignatureOf(r) # EmptyText
              /\ SignedByValidator(r)

\* C1 witness: a request signed with the previous secret has been accepted
C1_Witness ==
    \E i \in ValidateCalls :
        /\ calls[i].err = "nil"
        /\ validator.oldSharedSecret # ""
        /\ validator.oldSharedSecret # validator.sharedSecret
        /\ SignatureOf(calls[i].before) =
             SignatureUnder(calls[i].before, validator.oldSharedSecret)

\* the first check of the fixed order that the request r fails, among the
\* five that come before the secrets; 0 when it passes them all
FirstFailure(r) ==
    IF TimestampOf(r) = <<>> THEN 1
    ELSE IF ~IsInt64(TimestampOf(r)) THEN 2
    ELSE IF ~InWindow(TimestampOf(r), now) THEN 3
    ELSE IF r.body.err THEN 4
    ELSE IF SignatureOf(r) = EmptyText THEN 5
    ELSE 0

ErrorOf(k) ==
    <<"missing timestamp header", "invalid timestamp",
      "timestamp outside acceptable window", "reading request body",
      "missing signature header">>[k]

\* C2: the checks of one call run in the order timestamp presence, timestamp
\* parse, window, body read, signature presence, active secret, previous
\* secret; the error is that of the first check that fails; the active secret
\* is tried first and at most two secrets are tried.
C2_FixedCheckOrder ==
    \A i \in ValidateCalls :
        LET c == calls[i]
            k == FirstFailure(c.before)
        IN  /\ Len(c.checks) \in 1..7
            /\ \A j \in DOMAIN c.checks :
                 c.checks[j] = <<"timestamp presence", "timestamp parse", "window",
                                 "body read", "signature presence", "active secret",
                                 "previous secret">>[j]
            /\ k # 0 => /\ c.err = ErrorOf(k)
                        /\ Len(c.checks) = k
                        /\ c.tried = <<>>
            /\ k = 0 => /\ c.err \in {"nil", "invalid signature"}
                        /\ Len(c.tried) \in {1, 2}
                        /\ c.tried[1] = validator.sharedSecret
                        /\ Len(c.tried) = 2 => c.tried[2] = validator.oldSharedSecret
                        /\ Len(c.checks) = 5 + Len(c.tried)

\* C2 witness: a stale timestamp without a signature header got the window error
C2_Witness ==
    \E i \in ValidateCalls :
        /\ ~calls[i].before.header.signature.present
        /\ IsInt64(TimestampOf(calls[i].before))
        /\ calls[i].err = "timestamp outside acceptable window"
        /\ Len(calls[i].checks) = 3

\* r is a fresh request that arrived whole and is signed with key k
SignedFresh(r, k) ==
    /\ InWindow(TimestampOf(r), now)
    /\ ~r.body.err
    /\ SignatureOf(r) = SignatureUnder(r, k)

C4_ClosedWindow ==
    \A i \in ValidateCalls :
        LET s   == TimestampOf(calls[i].before)
            out == calls[i].err = "timestamp outside acceptable window"
            w   == 15 * 60 * TicksPerSecond
            sec == TicksPerSecond
        IN  (s # <<>> /\ IsInt64(s)) =>
              /\ out <=> ~InWindow(s, now)
              /\ ~out => Len(calls[i].checks) > 3
              /\ Len(StripZeros(IF s[1] \in {"+", "-"} THEN Tail(s) ELSE s)) <= 8 =>
                   LET t == SecondsOf(s) * sec
                   IN  /\ t = now - w - sec => out
                       /\ t = now - w + sec => ~out
                       /\ t = now + w + sec => out
                       /\ t = now + w - sec => ~out
                       /\ t = now - w => ~out
                       /\ t = now + w => ~out

\* C4 witness: a timestamp exactly 15 minutes old has passed the replay check
C4_Witness ==
    \E i \in ValidateCalls :
        /\ IsInt64(TimestampOf(calls[i].before))
        /\ SecondsOf(TimestampOf(calls[i].before)) * TicksPerSecond
             = now - 15 * 60 * TicksPerSecond
        /\ Len(calls[i].checks) > 3

\* C5: once ValidateRequest has read the body, the body is whole again: a
\* following full read, such as ParseWebhookPayload's, yields the bytes that
\* were in the body before the validation, which are the bytes of the signed
\* payload.
C5_BodyRoundTrip ==
    \A i \in ValidateCalls :
        LET c == calls[i]
        IN  (Len(c.checks) >= 4 /\ c.err # "reading request body") =>
              /\ c.bytes = c.before.body.data
              /\ Len(c.checks) >= 6 => c.payload = TimestampOf(c.before) \o <<".">> \o c.bytes
              /\ (i + 1 \in DOMAIN calls /\ calls[i + 1].op = "ParseWebhookPayload") =>
                    /\ calls[i + 1].bytes = c.before.body.data
                    /\ calls[i + 1].bytes = c.bytes

\* C5 witness: a request with a body has been validated and then parsed
C5_Witness ==
    /\ Len(calls) = 2
    /\ calls[1].op = "ValidateRequest"
    /\ calls[1].err = "nil"
    /\ calls[1].before.body.data # <<>>
    /\ calls[2].op = "ParseWebhookPayload"
    /\ calls[2].err = "nil"

\* C6: ValidateRequest leaves the validator as it was, whether it accepts or
\* refuses; SetOldSecret changes the previous secret and nothing else; the
\* window is 15 minutes in every state.
C6_ValidationReadOnly ==
    /\ [][/\ Validate => validator' = validator
          /\ Rotate => /\ validator'.sharedSecret = validator.sharedSecret
                       /\ validator'.timestampWindow = validator.timestampWindow
                       /\ now' = now
                       /\ req' = req]_vars
    /\ [](validator.timestampWindow = 15 * 60 * TicksPerSecond)

\* C6 witness: SetOldSecret has set a previous secret and ValidateRequest has
\* since accepted a request
C6_Witness ==
    /\ validator.oldSharedSecret # ""
    /\ \E i \in ValidateCalls : calls[i].err = "nil"

\* C7: a request without a timestamp header, or with an empty one, gets the
\* missing-timestamp error whatever its signature header and body are.
C7_MissingTimestamp ==
    \A i \in ValidateCalls :
        TimestampOf(calls[i].before) = <<>> =>
            /\ calls[i].err = "missing timestamp header"
            /\ Len(calls[i].checks) = 1

\* C7 witness: the missing-timestamp error for a request whose signature is
\* the active secret's over its payload
C7_Witness ==
    \E i \in ValidateCalls :
        /\ ~calls[i].before.header.timestamp.present
        /\ calls[i].before.body.data # <<>>
        /\ SignatureOf(calls[i].before) =
              SignatureUnder(calls[i].before, validator.sharedSecret)
        /\ calls[i].err = "missing timestamp header"

\* C8: a timestamp header that is not empty and is not the decimal text of
\* an int64 gets the invalid-timestamp error, before the window check and
\* before the body is read.
C8_InvalidTimestamp ==
    \A i \in ValidateCalls :
        LET s == TimestampOf(calls[i].before)
        IN  (s # <<>> /\ ~IsInt64(s)) =>
              /\ calls[i].err = "invalid timestamp"
              /\ Len(calls[i].checks) = 2
              /\ calls[i].bytes = <<>>
              /\ calls[i].after = calls[i].before.body

\* C8 witness: a header of letters, with a body to read, got the error
C8_Witness ==
    \E i \in ValidateCalls :
        /\ TimestampOf(calls[i].before) = <<"a", "b", "c">>
        /\ calls[i].before.body.data # <<>>
        /\ calls[i].err = "invalid timestamp"
        /\ calls[i].cause = "syntax"

\* C9 as claimed: a fresh, well-formed timestamp and no signature, or an
\* empty one, give the missing-signature error, and no secret is tried.
C9_AsClaimed ==
    \A i \in ValidateCalls :
        LET r == calls[i].before
        IN  (InWindow(TimestampOf(r), now) /\ SignatureOf(r) = EmptyText) =>
              /\ calls[i].err = "missing signature header"
              /\ calls[i].tried = <<>>

\* C9: a fresh, well-formed timestamp and no signature, or an empty one, give
\* the missing-signature error when the body can be read, and the error of
\* the body read when it cannot; no secret is tried in either case.
C9_MissingSignature ==
    \A i \in ValidateCalls :
        LET r == calls[i].before
        IN  (InWindow(TimestampOf(r), now) /\ SignatureOf(r) = EmptyText) =>
              /\ calls[i].err = IF r.body.err THEN "reading request body"
                                ELSE "missing signature header"
              /\ calls[i].tried = <<>>

\* C9 witness: the missing-signature error for a fresh request with a body
C9_Witness ==
    \E i \in ValidateCalls :
        /\ InWindow(TimestampOf(calls[i].before), now)
        /\ ~calls[i].before.header.signature.present
        /\ calls[i].before.body.data # <<>>
        /\ calls[i].err = "missing signature header"
        /\ calls[i].tried = <<>>

\* the signature header of r is not empty and is neither the active secret's
\* signature nor a set previous secret's
Malformed(r) == SignatureOf(r) # EmptyText /\ ~SignedByValidator(r)

\* verifySignature answers false for the signature of r under every key that
\* did not make it
NeverVerifies(r) ==
    \A k \in SignerKeys :
        SignatureOf(r) # SignatureUnder(r, k) =>
            ~verifySignature(TimestampOf(r) \o <<".">> \o r.body.data, SignatureOf(r), k)

\* C10 as claimed: a signature that is no hex, too short or not the expected
\* digest never verifies, and on a fresh request it gives the
\* invalid-signature error and no other.
C10_AsClaimed ==
    \A i \in ValidateCalls :
        LET r == calls[i].before
        IN  (InWindow(TimestampOf(r), now) /\ Malformed(r)) =>
              /\ NeverVerifies(r)
              /\ calls[i].err = "invalid signature"

\* C10: a signature that is no hex, too short or not the expected digest never
\* verifies, and on a fresh request whose body can be read it gives the
\* invalid-signature error; when the body cannot be read the error is that of
\* the body read.
C10_MalformedSignature ==
    \A i \in ValidateCalls :
        LET r == calls[i].before
        IN  (InWindow(TimestampOf(r), now) /\ Malformed(r)) =>
              /\ NeverVerifies(r)
              /\ calls[i].err = IF r.body.err THEN "reading request body"
                                ELSE "invalid signature"

\* C10 witness: the invalid-signature error for the expected digest cut short
C10_Witness ==
    \E i \in ValidateCalls :
        LET r == calls[i].before
        IN  /\ InWindow(TimestampOf(r), now)
            /\ SignatureOf(r) = TruncatedHex(Hmac(validator.sharedSecret,
                                    TimestampOf(r) \o <<".">> \o r.body.data))
            /\ calls[i].err = "invalid signature"

----------------------------------------------------------------------------

\* the decimal text strconv.FormatInt gives the integer that s parses to
CanonicalOf(s) == FormatInt(SecondsOf(s))

\* s parses to an integer of at most eight digits and is not its decimal text
NonCanonical(s) ==
    /\ IsInt64(s)
    /\ Len(StripZeros(IF s[1] \in {"+", "-"} THEN Tail(s) ELSE s)) <= 8
    /\ s # CanonicalOf(s)

\* r carries a signature over "<canonical decimal timestamp>.<body>"
SignedOverCanonical(r) ==
    \E k \in SignerKeys :
        SignatureOf(r) =
            EncodeToString(Hmac(k, CanonicalOf(TimestampOf(r)) \o <<".">> \o r.body.data))

\* C11: the payload ValidateRequest signs is the timestamp header text as
\* received, one ".", and the body bytes as read.  A header that parses to an
\* integer but is not its canonical decimal text (a leading "+", leading
\* zeros) gives a payload other than the one of the canonical text, and a
\* signature over the canonical payload is answered "invalid signature".
C11_PayloadAsReceived ==
    \A i \in ValidateCalls :
        LET r == calls[i].before
            s == TimestampOf(r)
        IN  /\ Len(calls[i].checks) >= 6 =>
                  calls[i].payload = s \o <<".">> \o r.body.data
            /\ Len(calls[i].checks) >= 6 /\ NonCanonical(s) =>
                  /\ calls[i].payload # CanonicalOf(s) \o <<".">> \o r.body.data
                  /\ SignedOverCanonical(r) => calls[i].err = "invalid signature"

\* C11 witness: a request whose timestamp header has a leading "+" or a
\* leading zero, inside the window, signed with the active secret over the
\* canonical payload, has been refused
C11_Witness ==
    \E i \in ValidateCalls :
        LET r == calls[i].before
        IN  /\ NonCanonical(TimestampOf(r))
            /\ SignatureOf(r) =
                 EncodeToString(Hmac(validator.sharedSecret,
                     CanonicalOf(TimestampOf(r)) \o <<".">> \o r.body.data))
            /\ calls[i].err = "invalid signature"

----------------------------------------------------------------------------

EqualUpToZeros(a, b) == a = b \/ {a, b} = {"A", AZero} \/ {a, b} = {"", Zero}

----------------------------------------------------------------------------
(* Properties of the client *)

\* the requests of a call that went to the token endpoint, and to the API
TokenRequests(call) == {i \in DOMAIN call.sent : call.sent[i].to = "token"}
ApiRequests(call) == {i \in DOMAIN call.sent : call.sent[i].to = "api"}

\* the call was made with a token cached whose expiry lies more than d
\* seconds after the call
CachedFor(call, d) ==
    /\ call.before.accessToken # ""
    /\ ~call.before.tokenExpiry.zero
    /\ call.at + d * Second < call.before.tokenExpiry.ticks

\* the call reused the cached token: no token request, no error, and the
\* token and expiry it found
ReusedToken(call) ==
    /\ TokenRequests(call) = {}
    /\ call.err = NoError
    /\ client.accessToken = call.before.accessToken
    /\ client.tokenExpiry = call.before.tokenExpiry

\* the call went for a new token: it asked the token endpoint, or failed to
\* build the request for it
WentForToken(call) ==
    \/ Cardinality(TokenRequests(call)) = 1
    \/ call.err.chain = <<"creating auth request">>

\* C13: authenticate reuses the cached token, without a request to the token
\* endpoint, exactly when a token is cached and the clock is strictly before
\* expiry - 600 s; otherwise it goes for a new token.  A token with 3600 s
\* to its expiry at t0 is reused by a call at t0 + 2000 s and not by a call
\* at t0 + 3000 s.
C13_TokenReuse ==
    last.op = "authenticate" =>
        /\ ReusedToken(last) <=> CachedFor(last, 600)
        /\ ~CachedFor(last, 600) => WentForToken(last)
        /\ \A t0 \in {StartSecond * Second + d : d \in Elapsed} :
              /\ last.before.accessToken # ""
              /\ last.before.tokenExpiry = At(t0 + 3600 * Second)
              => /\ last.at = t0 + 2000 * Second => ReusedToken(last)
                 /\ last.at = t0 + 3000 * Second => ~ReusedToken(last) /\ WentForToken(last)

\* C13 witness: with a token cached at the start of the clock for 3600 s,
\* authenticate called 3000 s later has asked the token endpoint
C13_Witness ==
    /\ last.op = "authenticate"
    /\ last.before.accessToken # ""
    /\ last.before.tokenExpiry = At(StartSecond * Second + 3600 * Second)
    /\ last.at = StartSecond * Second + 3000 * Second
    /\ Cardinality(TokenRequests(last)) = 1

\* C14: a call of authenticate that returns an error (a failure status, a
\* failed round trip, a body that does not decode, a request that cannot be
\* built) leaves accessToken and tokenExpiry, and the rest of the client, as
\* they were before the call.
C14_FailureKeepsToken ==
    last.op = "authenticate" /\ last.err # NoError =>
        /\ client.accessToken = last.before.accessToken
        /\ client.tokenExpiry = last.before.tokenExpiry
        /\ client = last.before

\* C14 witness: with a token cached, past its renewal time, authenticate has
\* failed on a 401
C14_Witness ==
    /\ last.op = "authenticate"
    /\ last.before.accessToken # ""
    /\ last.err.chain = <<"authentication failed with status">>
    /\ last.err.status = StatusUnauthorized

\* the token endpoint was asked and answered with a response
Answered(call) == Cardinality(TokenRequests(call)) = 1 /\ ~call.replies.auth1.err

\* the error of authenticate for a failure status: the status code and the
\* text of the body
AuthenticationFailed(call) ==
    /\ call.err.chain = <<"authentication failed with status">>
    /\ call.err.status = call.replies.auth1.status
    /\ ~call.replies.auth1.body.err => call.err.text = call.replies.auth1.body.text

\* C15 as claimed: the answer of the token endpoint is classified by its
\* status class: a 2xx response has its body parsed as a token (the call
\* succeeds when the body decodes), and exactly the other responses give
\* the authentication-failed error with the status code and the body text.
C15_StatusClass ==
    last.op = "authenticate" /\ Answered(last) =>
        LET status == last.replies.auth1.status
        IN  IF 200 <= status /\ status <= 299
            THEN /\ ~AuthenticationFailed(last)
                 /\ last.replies.auth1.body.json =>
                       /\ last.err = NoError
                       /\ client.accessToken = last.replies.auth1.body.access_token
            ELSE AuthenticationFailed(last)

\* the call of doRequest failed in its authentication
AuthenticationFailedIn(call) ==
    /\ call.op = "doRequest"
    /\ call.err.chain # <<>>
    /\ call.err.chain[1] = "authentication failed"

\* C17 as claimed: when authentication fails inside doRequest, the call has
\* made exactly one token request and no API request.
C17_AsClaimed ==
    AuthenticationFailedIn(last) =>
        /\ Cardinality(TokenRequests(last)) = 1
        /\ ApiRequests(last) = {}

\* C17: when authentication fails inside doRequest, the call has made at
\* most one token request (none when the token request could not be built)
\* and no API request, and the error returned is "authentication failed"
\* wrapping the error authenticate returns for the same client, clock and
\* answer; the client is as it was before the call.
C17_AuthFailurePropagates ==
    AuthenticationFailedIn(last) =>
        LET auth == authenticate(last.before, last.at, last.replies.auth1)
        IN  /\ Len(last.sent) <= 1
            /\ Len(last.sent) = 0 <=> ~Parses(last.before.authURL)
            /\ ApiRequests(last) = {}
            /\ auth.err # NoError
            /\ last.err = Wrap("authentication failed", auth.err)
            /\ Tail(last.err.chain) \in
                  {<<"creating auth request">>, <<"executing auth request">>,
                   <<"authentication failed with status">>, <<"decoding auth response">>}
            /\ ~last.returned
            /\ client = last.before

\* C17 witness: doRequest has failed on a 401 of the token endpoint, after
\* one token request
C17_Witness ==
    /\ AuthenticationFailedIn(last)
    /\ last.err.status = StatusUnauthorized
    /\ Len(last.sent) = 1
    /\ last.sent[1].to = "token"

----------------------------------------------------------------------------
(* The print workflow and the success flag (SpecPrint) *)

\* the PUTs of a call to the storage
Puts(call) == {i \in DOMAIN call.sent : call.sent[i].to = "storage"}

\* the call is one of PrintData or PrintFile that got as far as a stage
IsPrintCall(call) == call.op \in {"PrintData", "PrintFile"} /\ call.stages # <<>>

\* what the answers to a print call say of its stages: Submit was answered
\* with a result, the result has an upload link, the storage took the PUT
SubmitSucceeded(call) ==
    /\ Cardinality(ApiRequests(call)) >= 1
    /\ ~call.replies.api.err
    /\ call.replies.api.status \in 200..299
    /\ call.replies.api.body.json
    /\ call.replies.api.body.success
HasUploadLink(call) == Len(call.replies.api.body.uploadLinks) > 0
UploadSucceeded(call) ==
    /\ Cardinality(Puts(call)) = 1
    /\ ~call.replies.upload.err
    /\ call.replies.upload.status \in {StatusOK, StatusCreated}

\* the requests of a print call are in the order of the stages: the Submit
\* POST, the PUT to the first upload link, the POST to the uploadCompleted
\* link (each POST after its token request, if one was needed)
InStageOrder(call) ==
    /\ Cardinality(Puts(call)) <= 1
    /\ \A i \in ApiRequests(call) :
         \/ /\ call.sent[i].url.path = submitEndpoint
            /\ call.sent[i].method = "POST"
            /\ \A j \in Puts(call) \cup (ApiRequests(call) \ {i}) : i < j
         \/ /\ call.sent[i].url = call.replies.api.body.uploadCompleted
            /\ call.sent[i].method = "POST"
            /\ \E j \in Puts(call) : j < i
            /\ \A j \in DOMAIN call.sent : j > i => call.sent[j].to = "token"
    /\ \A i \in Puts(call) :
         /\ call.sent[i].method = "PUT"
         /\ call.sent[i].url = call.replies.api.body.uploadLinks[1]

\* C18: PrintData and PrintFile go through Submit, one PUT to the first upload
\* link and CompleteUpload in that order; a stage is entered only when every
\* stage before it succeeded (so CompleteUpload only after a PUT answered 200
\* or 201), and a call that stops before the end, or whose completion fails,
\* returns an error.
C18_StagesInOrder ==
    IsPrintCall(last) =>
        /\ last.stages \in {<<"Submit">>, <<"Submit", "UploadDocument">>,
                            <<"Submit", "UploadDocument", "CompleteUpload">>}
        /\ InStageOrder(last)
        /\ Len(last.stages) >= 2 <=> SubmitSucceeded(last) /\ HasUploadLink(last)
        /\ Len(last.stages) = 3 <=>
              SubmitSucceeded(last) /\ HasUploadLink(last) /\ UploadSucceeded(last)
        /\ Len(last.stages) < 3 =>
              /\ last.err # NoError
              /\ \A i \in ApiRequests(last) : last.sent[i].url.path = submitEndpoint
        /\ Len(last.stages) < 2 => Puts(last) = {}
        /\ last.err = NoError =>
              /\ Len(last.stages) = 3
              /\ Cardinality(ApiRequests(last)) = 2
              /\ ~last.replies.complete.err
              /\ last.replies.complete.body.success

\* a print call whose PUT the storage refused: it ended in the upload error
\* without asking for the completion
C18_Witness ==
    /\ last.op = "PrintData"
    /\ last.stages = <<"Submit", "UploadDocument">>
    /\ Cardinality(Puts(last)) = 1
    /\ last.replies.upload.status = 403
    /\ last.err.chain[1] = "uploading document"
    /\ Cardinality(ApiRequests(last)) = 1

\* the operations that look at the success flag of the response
FlaggedCalls == {op.name : op \in Operations} \cup {"Submit", "CompleteUpload"}

\* the API answered the call with a well-formed 2xx response whose success
\* flag is false
SuccessFalse(call) ==
    /\ Cardinality(ApiRequests(call)) = 1
    /\ ~call.replies.api.err
    /\ call.replies.api.status \in 200..299
    /\ call.replies.api.body.json
    /\ ~call.replies.api.body.success

\* C19: Submit, CompleteUpload and the job, user and group operations give no
\* result for a well-formed 2xx response whose success flag is false: they
\* return an error that carries the errorDescription and the errorId of the
\* response.
C19_SuccessFalseIsError ==
    last.op \in FlaggedCalls /\ SuccessFalse(last) =>
        /\ ~last.returned
        /\ last.body = NoBody
        /\ last.err # NoError
        /\ Len(last.err.chain) = 1
        /\ last.err.text = last.replies.api.body.errorDescription
        /\ last.err.id = last.replies.api.body.errorId

\* CancelJob answered 200 with success false, "Printer offline", E42
C19_Witness ==
    /\ last.op = "CancelJob"
    /\ SuccessFalse(last)
    /\ last.replies.api.status = StatusOK
    /\ last.err = Errorf("cancel job failed", 0, "Printer offline", "E42")

----------------------------------------------------------------------------
(* ParseJobStatusChange (SpecEvent) *)

\* the members of an object that go into the field called name in the JSON
\* (its key taken without regard to case) and hold a value
MembersOf(data, name) ==
    {i \in DOMAIN data.members :
        /\ data.members[i].key \in
             (IF name = "jobId" THEN {"jobId", "JOBID"}
              ELSE IF name = "printerId" THEN {"printerId", "PrinterID"}
              ELSE {name})
        /\ data.members[i].value.type # "null"}

\* the data decodes: it is null, or an object whose jobId, printerId, status
\* and message, where given, are strings
Decodable(data) ==
    \/ data.kind = "null"
    \/ /\ data.kind = "object"
       /\ \A name \in {"jobId", "printerId", "status", "message"} :
            \A i \in MembersOf(data, name) : data.members[i].value.type = "string"

\* the field of the data called name: the text of its last member of that
\* name, and the empty string when there is none
FieldOf(data, name) ==
    IF MembersOf(data, name) = {} THEN ""
    ELSE data.members[CHOOSE i \in MembersOf(data, name) :
                         \A j \in MembersOf(data, name) : j <= i].value.text

\* C20: ParseJobStatusChange looks at the data only of an event whose type is
\* exactly "job.status.changed"; an event of another type gets the
\* incorrect-event-type error whatever its data, a matching event whose data
\* does not decode gets the parsing error, and otherwise the jobId, printerId,
\* status and message returned are those of the data.
C20_ParseJobStatusChange ==
    parsed.stage = "parsed" =>
        LET event == parsed.event
            out   == parsed.out
        IN  /\ event.Type # "job.status.changed" =>
                 /\ out.isNil
                 /\ out.err = Errorf("incorrect event type", 0, event.Type, "")
            /\ event.Type = "job.status.changed" /\ ~Decodable(event.Data) =>
                 /\ out.isNil
                 /\ out.err # NoError
                 /\ out.err.chain[1] = "parsing job status change"
            /\ event.Type = "job.status.changed" /\ Decodable(event.Data) =>
                 /\ ~out.isNil
                 /\ out.err = NoError
                 /\ out.data.JobID = FieldOf(event.Data, "jobId")
                 /\ out.data.PrinterID = FieldOf(event.Data, "printerId")
                 /\ out.data.Status = FieldOf(event.Data, "status")
                 /\ out.data.Message = FieldOf(event.Data, "message")

\* an event of type "printer.online" with malformed data, refused for its type
C20_Witness ==
    /\ parsed.stage = "parsed"
    /\ parsed.event = WebhookEvent("printer.online", RawMessage("malformed"))
    /\ parsed.out.isNil
    /\ parsed.out.err.chain = <<"incorrect event type">>

----------------------------------------------------------------------------
(* Concurrent calls on one client (SpecRace) *)

\* the token and the expiry the client holds were stored from one and the
\* same token response (or none has been stored)
PairOfOneResponse ==
    \/ client.accessToken = "" /\ client.tokenExpiry = ZeroTime
    \/ [token |-> client.accessToken, expiry |-> client.tokenExpiry] \in routines.stored

\* C16: under any interleaving of concurrent calls the token state is not
\* corrupted: whenever no goroutine is between its two stores, the client
\* holds the token and the expiry of one and the same token response, and the
\* token an API request carries is one the token endpoint issued.
C16_BenignRace ==
    /\ (\A g \in Goroutines : routines.pc[g] # "l145") => PairOfOneResponse
    /\ \A g \in Goroutines :
         routines.bearer[g] # NoBearer => routines.bearer[g] \in IssuedTokens

----------------------------------------------------------------------------
(* Event classification (SpecEvent) *)

\* the names of the model that hold both "JOB" and "STATUS", in capitals
JobStatusNames ==
    {<<"R", "E", "S", "O", "U", "R", "C", "E", ".", "J", "O", "B", ".", "S", "T", "A", "T", "U", "S">>,
     <<"J", "O", "B", "S", "T", "A", "T", "U", "S">>,
     <<"S", "T", "A", "T", "U", "S", ".", "J", "O", "B">>}

\* C21: the classification of an event rests on its name alone, letter for
\* letter: IsUserCreateEvent holds exactly for "RESOURCE.TENANT_USER.CREATE",
\* IsJobStatusChangeEvent exactly for the names that hold both "JOB" and
\* "STATUS", whatever the href and the time.
C21_ClassifiedByName ==
    parsed.stage = "classified" =>
        /\ parsed.out.IsUserCreateEvent <=>
              parsed.event.Name = <<"R", "E", "S", "O", "U", "R", "C", "E", ".", "T", "E", "N", "A", "N", "T", "_", "U", "S", "E", "R", ".", "C", "R", "E", "A", "T", "E">>
        /\ parsed.out.IsJobStatusChangeEvent <=> parsed.event.Name \in JobStatusNames

\* "STATUS" alone, with a href that holds "JOB.STATUS", is no job status event
C21_Witness ==
    /\ parsed.stage = "classified"
    /\ parsed.event.Name = <<"S", "T", "A", "T", "U", "S">>
    /\ parsed.event.Href = "JOB.STATUS"
    /\ ~parsed.out.IsJobStatusChangeEvent
    /\ ~parsed.out.IsUserCreateEvent

----------------------------------------------------------------------------
(* The PDL of a file (SpecPrint) *)

\* the name ends in the suffix
EndsIn(name, suffix) ==
    Len(name) >= Len(suffix)
    /\ SubSeq(name, Len(name) - Len(suffix) + 1, Len(name)) = suffix

\* the PDL the file type of a name calls for
PDLByName(name) ==
    IF EndsIn(name, <<".", "z", "p", "l">>) THEN "ZPL"
    ELSE IF EndsIn(name, <<".", "p", "c", "l">>) THEN "PCL5"
    ELSE IF EndsIn(name, <<".", "x", "p", "s">>) THEN "XPS"
    ELSE IF EndsIn(name, <<".", "p", "s">>) THEN "POSTSCRIPT"
    ELSE ""

\* the requests of a call to the job submission endpoint
SubmitRequests(call) == {i \in ApiRequests(call) : call.sent[i].url.path = submitEndpoint}

\* C22: the job PrintFile submits carries the PDL parameter of the file's
\* type, taken from the end of its name: ZPL for .zpl, PCL5 for .pcl,
\* POSTSCRIPT for .ps, XPS for .xps, and none for any other name.
C22_PDLByName ==
    last.op = "PrintFile" =>
        \A i \in SubmitRequests(last) : last.sent[i].url.query.PDL = PDLByName(last.file)

----------------------------------------------------------------------------
(* The rate-limit state (SpecClient) *)

\* the header values of the model that are numbers, and the numbers
RemainingOf(value) == IF value = <<"5">> THEN 5 ELSE 7
Numeric(header) ==
    header.present /\ header.value \in {<<"5">>, <<"7">>, FormatInt(StartSecond + 60)}

\* the call got a response from the API
GotResponse(call) == Cardinality(ApiRequests(call)) = 1 /\ ~call.replies.api.err

\* C23: after a call of doRequest, GetRateLimitInfo gives the values of the
\* X-Rate-Limit-Remaining and X-Rate-Limit-Reset headers of its response where
\* the header is there and is a number, and otherwise (header missing or not
\* a number, no response received) what it gave before the call; so it gives
\* the values of the most recent response that carried them.
C23_RateLimitInfo ==
    last.op = "doRequest" =>
        LET reply  == last.replies.api
            before == GetRateLimitInfo(last.before)
            after  == GetRateLimitInfo(client)
        IN  /\ after.remaining =
                 IF GotResponse(last) /\ Numeric(reply.remaining)
                 THEN RemainingOf(reply.remaining.value) ELSE before.remaining
            /\ after.reset =
                 IF GotResponse(last) /\ Numeric(reply.reset)
                 THEN [far |-> FALSE, ticks |-> (StartSecond + 60) * Second]
                 ELSE before.reset

\* a client that had 5 remaining got a response with remaining "7" and a
\* reset that is no integer: it has 7 remaining and the reset it had
C23_Witness ==
    /\ last.op = "doRequest"
    /\ GotResponse(last)
    /\ last.before.rateLimitRemain = 5
    /\ last.replies.api.remaining = Present(<<"7">>)
    /\ last.replies.api.reset = Present(<<"1", "e", "9">>)
    /\ GetRateLimitInfo(client) =
         [remaining |-> 7, reset |-> [far |-> FALSE, ticks |-> (StartSecond + 60) * Second]]

----------------------------------------------------------------------------
(* GetAllPrinters (SpecPages) *)

\* the page requests of the call, in the order sent, and the page of each
PageRequests == SelectSeq(pager.sent, LAMBDA r : r.to = "api")
PageOf(request) == IF request.url.query.page.present THEN request.url.query.page.value ELSE 0

\* the response to page ends the listing
EndsListing(page, resp) == page >= resp.totalPages - 1 \/ resp.printers = <<>>

\* the printers of the responses, one list after the other
RECURSIVE Concatenated(_)
Concatenated(taken) ==
    IF taken = <<>> THEN <<>> ELSE Head(taken).printers \o Concatenated(Tail(taken))

\* the pages 0, 1, 2, ... were asked for in this order, and no response taken
\* before the last one ended the listing
PagesInOrder ==
    /\ \A k \in DOMAIN PageRequests : PageOf(PageRequests[k]) = k - 1
    /\ \A k \in DOMAIN pager.taken :
         k < Len(pager.taken) => ~EndsListing(k - 1, pager.taken[k])

C24_Safe ==
    /\ PagesInOrder
    /\ pager.pc = "loop" =>
         /\ Len(PageRequests) = Len(pager.taken)
         /\ pager.page = Len(pager.taken)
         /\ pager.taken # <<>> =>
              ~EndsListing(Len(pager.taken) - 1, pager.taken[Len(pager.taken)])
    /\ pager.pc = "done" /\ pager.err = NoError =>
         /\ Len(PageRequests) = Len(pager.taken)
         /\ pager.taken # <<>>
         /\ EndsListing(Len(pager.taken) - 1, pager.taken[Len(pager.taken)])
         /\ pager.allPrinters = Concatenated(pager.taken)
    /\ pager.pc = "done" /\ pager.err # NoError =>
         /\ Len(PageRequests) \in {Len(pager.taken), Len(pager.taken) + 1}
         /\ pager.taken # <<>> =>
              ~EndsListing(Len(pager.taken) - 1, pager.taken[Len(pager.taken)])
         /\ pager.allPrinters = <<>>
    /\ pager.pc = "done" /\ pager.constant > 0 =>
         /\ pager.err = NoError
         /\ Len(PageRequests) = pager.constant

\* C24: GetAllPrinters asks for the pages 0, 1, 2, ... in this order and stops
\* at the first page p with p >= TotalPages - 1 or without printers, or at the
\* first error; against a server that keeps to TotalPages = N >= 1 and has no
\* empty page it ends, after N page requests, with the printers of all pages
\* in page order.
C24_GetAllPrinters ==
    /\ []C24_Safe
    /\ (pager.pc = "loop" /\ pager.constant > 0) ~> (pager.pc = "done")

\* against a server that keeps to three pages the call has ended with three
\* page requests and the printers of the three pages
C24_Witness ==
    /\ pager.pc = "done"
    /\ pager.constant = 3
    /\ Len(PageRequests) = 3
    /\ Len(pager.taken) = 3
    /\ pager.allPrinters = Concatenated(pager.taken)
    /\ Len(pager.allPrinters) >= 3

----------------------------------------------------------------------------
(* ValidateRequest and ParseWebhookPayload on one request (Spec) *)

\* the two calls made on the request since it arrived, with the clock and the
\* secrets as they were
TwoCalls(first, second) ==
    /\ Len(calls) = 2
    /\ calls[1].op = first
    /\ calls[2].op = second

\* the outcomes of ValidateRequest but for the failure of the read
RepeatableOutcomes ==
    {"nil", "missing timestamp header", "invalid timestamp",
     "timestamp outside acceptable window", "missing signature header",
     "invalid signature"}

\* C25: with the clock and the secrets unchanged, a second call of
\* ValidateRequest on the same request ends as the first one did, whether the
\* first accepted, refused the timestamp, missed the signature or refused
\* it: the body was not touched or was put back byte for byte.
C25_Repeatable ==
    TwoCalls("ValidateRequest", "ValidateRequest") /\ calls[1].err \in RepeatableOutcomes =>
        /\ calls[2].err = calls[1].err
        /\ calls[2].cause = calls[1].cause
        /\ calls[2].checks = calls[1].checks
        /\ calls[2].before.body = calls[1].before.body

\* C25 witness: a request with a body has been accepted twice
C25_Witness ==
    /\ TwoCalls("ValidateRequest", "ValidateRequest")
    /\ calls[1].before.body.data # <<>>
    /\ calls[1].err = "nil"
    /\ calls[2].err = "nil"

\* r is fresh, has a body that can be read and is not empty, and carries the
\* signature of the validator
SignedFreshWithBody(r) ==
    /\ r.header.timestamp.present
    /\ InWindow(TimestampOf(r), now)
    /\ SignatureOf(r) # EmptyText
    /\ SignedByValidator(r)
    /\ ~r.body.err
    /\ r.body.data # <<>>

\* ParseWebhookPayload first: ValidateRequest then refuses the signature
ParseThenValidate ==
    TwoCalls("ParseWebhookPayload", "ValidateRequest") /\ SignedFreshWithBody(calls[1].before) =>
        /\ calls[1].after.data = <<>>
        /\ calls[2].err = "invalid signature"

\* C26 as stated: for a correctly signed fresh request with a non-empty body,
\* ParseWebhookPayload followed by ValidateRequest gives the invalid-signature
\* error, and ValidateRequest followed by ParseWebhookPayload succeeds in both
\* steps.
C26_OrderDependence ==
    /\ ParseThenValidate
    /\ TwoCalls("ValidateRequest", "ParseWebhookPayload")
          /\ SignedFreshWithBody(calls[1].before) =>
             /\ calls[1].err = "nil"
             /\ calls[2].err = "nil"

\* C26 amended: ValidateRequest followed by ParseWebhookPayload succeeds in
\* both steps when the body decodes as a WebhookPayload; for any other
\* non-empty body the signature is accepted and the decoding fails.  The
\* other order gives the invalid-signature error for every such body.
C26_OrderDependenceOfPayloads ==
    /\ ParseThenValidate
    /\ TwoCalls("ValidateRequest", "ParseWebhookPayload")
          /\ SignedFreshWithBody(calls[1].before) =>
             /\ calls[1].err = "nil"
             /\ calls[2].bytes = calls[1].before.body.data
             /\ calls[2].err = IF calls[1].before.body.data \in JSONObjects
                               THEN "nil" ELSE "decoding webhook payload"

\* C26 witness: the same signed payload was refused after the parser had
\* read it
C26_Witness ==
    /\ TwoCalls("ParseWebhookPayload", "ValidateRequest")
    /\ SignedFreshWithBody(calls[1].before)
    /\ calls[1].before.body.data \in JSONObjects
    /\ calls[1].err = "nil"
    /\ calls[2].err = "invalid signature"

----------------------------------------------------------------------------
(* The bearer of the API requests and the renewal buffer (SpecClient) *)

\* C28: every API request that doRequest sends carries the bearer of a
\* non-empty access token that a successful token response issued, and after
\* authenticate has returned without error the accessToken of the client is
\* not empty.
C28_BearerIsIssuedToken ==
    /\ last.op = "doRequest" =>
          \A i \in ApiRequests(last) : last.sent[i].bearer \in AccessTokens
    /\ last.op = "authenticate" /\ last.err = NoError => client.accessToken # ""

\* the token endpoint answered the call with a token of at most d seconds,
\* which the call stored
StoredFor(call, d) ==
    /\ call.op \in {"authenticate", "doRequest"}
    /\ TokenRequests(call) # {}
    /\ ~call.replies.auth1.err
    /\ call.replies.auth1.status = StatusOK
    /\ call.replies.auth1.body.json
    /\ call.replies.auth1.body.expires_in <= d

\* at clock t the token of c is inside the renewal buffer of 600 s, or past
\* its expiry
InBuffer(c, t) == c.tokenExpiry.zero \/ t + 600 * Second >= c.tokenExpiry.ticks

\* the clocks of the model from t on
ClocksFrom(t) == {u \in {StartSecond * Second + d : d \in Elapsed} : u >= t}

\* C29: a token that the token endpoint issued with expires_in <= 600 is
\* inside the renewal buffer from the moment it is stored, and a doRequest on
\* a client whose token is inside the buffer asks for a new token before its
\* API request.
C29_ShortLivedToken ==
    /\ StoredFor(last, 600) =>
          /\ client.accessToken = last.replies.auth1.body.access_token
          /\ client.tokenExpiry = At(last.at + last.replies.auth1.body.expires_in * Second)
          /\ \A u \in ClocksFrom(last.at) : InBuffer(client, u)
    /\ last.op = "doRequest" /\ InBuffer(last.before, last.at) =>
          /\ \A i \in ApiRequests(last) : \E j \in TokenRequests(last) : j < i
          /\ last.err = NoError => Cardinality(TokenRequests(last)) = 1

\* C29 witness: a token stored at the start of the clock with 300 s to its
\* expiry, and a doRequest made later on that asked for a token and then
\* sent its API request
C29_Witness ==
    /\ last.op = "doRequest"
    /\ last.before.accessToken # ""
    /\ last.before.tokenExpiry = At(StartSecond * Second + 300 * Second)
    /\ last.at > StartSecond * Second
    /\ Len(last.sent) = 2
    /\ last.sent[1].to = "token"
    /\ last.sent[2].to = "api"

----------------------------------------------------------------------------
(* New and its options (SpecPrint) *)

\* the place of the last option of opts that is one of names, 0 for none
LastOf(opts, names) ==
    LET places == {i \in DOMAIN opts : opts[i].opt \in names}
    IN  IF places = {} THEN 0 ELSE CHOOSE i \in places : \A j \in places : j <= i

\* the auth URL, the base URL and the test mode that options given in this
\* order stand for
AuthURLOf(opts) ==
    LET i == LastOf(opts, {"WithAuthURL", "WithTestMode"})
    IN  IF i = 0 THEN defaultAuthURL
        ELSE IF opts[i].opt = "WithTestMode" THEN testAuthURL ELSE opts[i].url
BaseURLOf(opts) ==
    LET i == LastOf(opts, {"WithBaseURL"})
    IN  IF i = 0 THEN defaultBaseURL ELSE opts[i].base
TestModeOf(opts) == \E i \in DOMAIN opts : opts[i].opt = "WithTestMode"

\* C30: New applies its options in the order given and the later option
\* overrides the earlier one on a field: with WithTestMode, WithAuthURL(u)
\* the client asks u for its tokens, with WithAuthURL(u), WithTestMode the
\* test auth URL, and in both test mode is on and the jobs submitted carry
\* test=true; without options the client has the default base and auth URLs
\* and test mode off.  No call changes these fields.
C30_OptionsInOrder ==
    /\ last.op = "New" =>
          /\ client.authURL = AuthURLOf(last.opts)
          /\ client.baseURL = BaseURLOf(last.opts)
          /\ client.testMode = TestModeOf(last.opts)
          /\ last.opts = <<WithTestMode, WithAuthURL(CustomAuthURL)>> =>
                client.authURL = CustomAuthURL /\ client.testMode
          /\ last.opts = <<WithAuthURL(CustomAuthURL), WithTestMode>> =>
                client.authURL = testAuthURL /\ client.testMode
          /\ last.opts = <<>> =>
                /\ client.authURL = defaultAuthURL
                /\ client.baseURL = defaultBaseURL
                /\ ~client.testMode
    /\ last.op \notin {"", "New"} =>
          /\ client.authURL = last.before.authURL
          /\ client.baseURL = last.before.baseURL
          /\ client.testMode = last.before.testMode
          /\ \A i \in TokenRequests(last) : last.sent[i].url = last.before.authURL
          /\ last.before.testMode =>
                \A i \in SubmitRequests(last) : last.sent[i].url.query.test

\* C30 witness: a client in test mode with the auth URL of the caller's own,
\* which only WithTestMode followed by WithAuthURL gives, has asked this URL
\* for a token and has submitted a job with test=true
C30_Witness ==
    /\ last.op = "Submit"
    /\ last.before.testMode
    /\ last.before.authURL = CustomAuthURL
    /\ \E i \in TokenRequests(last) : last.sent[i].url = CustomAuthURL
    /\ \E i \in SubmitRequests(last) : last.sent[i].url.query.test

====
